---- MODULE Spec2Model ----
(***************************************************************************)
(* Exam Countdown Bot: the per-user daily reminder scheduler               *)
(* (app/scheduler.py), the handlers that drive it (app/handlers.py,        *)
(* app/conversations.py, app/main.py) and the storage layer it reads       *)
(* (app/db.py, app/firestore_db.py).                                       *)
(*                                                                         *)
(* Text is modelled as a sequence of one-character strings so that         *)
(* parsing and formatting (parse_time, the HH:MM split of install) are     *)
(* computed, not assumed.                                                  *)
(***************************************************************************)
EXTENDS Integers, Sequences, FiniteSets, TLC

VARIABLES
    users,                \* storage: the users table / users collection
    exams,                \* storage: the exams table / exams sub-collections
    jobs,                 \* application.job_queue: the live jobs, in insertion order
    inflight,             \* per user: dispatcher bodies suspended at the transport send
    phase,                \* "boot" (before schedule_all_users), "running", "exited"
    restarts,             \* number of process restarts so far
    job_queue_available,  \* application.job_queue is not None
    DEBUG_FAST_SCHEDULE,  \* Config.DEBUG_FAST_SCHEDULE
    backend,              \* "sqlite" | "postgres" | "firestore"
    stats,                \* history: per user, successful add_exam / delete_exam calls
    installed,            \* history: per user, an install call returned since process start
    settings,             \* the Config class attributes and what init_db initialised
    conv,                 \* per user: ConversationHandler states and context.user_data
    now,                  \* the wall clock, a UTC instant
    running,              \* per user: the registered job has a body in flight
    db,                   \* the relational database: tables, index, connections, calls
    last                  \* history: the operation that produced this state

vars == <<users, exams, jobs, inflight, phase, restarts, job_queue_available,
          DEBUG_FAST_SCHEDULE, backend, stats, installed, settings, conv, now,
          running, db, last>>

(***************************************************************************)
(* Bounds of the model.                                                    *)
(***************************************************************************)
MaxRestarts == 1     \* process restarts in one behaviour
MaxInflight == 2     \* dispatcher bodies of a user suspended at their send at one time
MaxExams == 3        \* stored exams at one time
MaxAdds == 3         \* successful add_exam calls per user
MaxEditExams == 2    \* stored exams at one time while exams are edited and listed
MaxChatExams == 2    \* stored exams at one time while the Add Exam conversation runs
MaxReminderExams == 2 \* stored exams at one time while reminders are built
MaxTicks == 3        \* advances of the clock

\* Two users: the smallest population in which an operation of one user can be
\* seen to leave the other user alone.  Their ids differ in the number of
\* digits, as Telegram ids do, so that the numeric order of the ids and the
\* order of their decimal texts (Firestore document ids) are different orders.
UserIds == {2, 10}

(***************************************************************************)
(* Text helpers.                                                           *)
(***************************************************************************)
DigitChars == {"0", "1", "2", "3", "4", "5", "6", "7", "8", "9"}

DigitVal(c) ==
    CASE c = "0" -> 0 [] c = "1" -> 1 [] c = "2" -> 2 [] c = "3" -> 3
      [] c = "4" -> 4 [] c = "5" -> 5 [] c = "6" -> 6 [] c = "7" -> 7
      [] c = "8" -> 8 [] c = "9" -> 9

DigitChar(d) ==
    CASE d = 0 -> "0" [] d = 1 -> "1" [] d = 2 -> "2" [] d = 3 -> "3"
      [] d = 4 -> "4" [] d = 5 -> "5" [] d = 6 -> "6" [] d = 7 -> "7"
      [] d = 8 -> "8" [] d = 9 -> "9"

AllDigits(s) == \A i \in 1..Len(s) : s[i] \in DigitChars

\* int() of a string of decimal digits
RECURSIVE IntOf(_)
IntOf(s) ==
    IF Len(s) = 0 THEN 0
    ELSE 10 * IntOf(SubSeq(s, 1, Len(s) - 1)) + DigitVal(s[Len(s)])

\* str.strip() for the blank character
RECURSIVE LStrip(_)
LStrip(s) == IF Len(s) > 0 /\ s[1] = " " THEN LStrip(Tail(s)) ELSE s

RECURSIVE RStrip(_)
RStrip(s) ==
    IF Len(s) > 0 /\ s[Len(s)] = " " THEN RStrip(SubSeq(s, 1, Len(s) - 1)) ELSE s

Strip(s) == LStrip(RStrip(s))

\* f"{n:02d}"
Format02(n) ==
    IF n < 10 THEN <<"0", DigitChar(n)>>
    ELSE <<DigitChar(n \div 10), DigitChar(n % 10)>>

\* str.split(':'): the pieces between the colons
RECURSIVE SplitColon(_, _, _)
SplitColon(s, cur, acc) ==
    IF Len(s) = 0 THEN Append(acc, cur)
    ELSE IF s[1] = ":" THEN SplitColon(Tail(s), <<>>, Append(acc, cur))
    ELSE SplitColon(Tail(s), Append(cur, s[1]), acc)

\* Python's None / empty string where a text is expected (both are falsy).
NoText == <<>>

(***************************************************************************)
(* app/utils.py                                                            *)
(***************************************************************************)
\* parse_time: ^(\d{1,2}):(\d{2})$ on the stripped text, range-checked and
\* zero-padded; NoText (None) when the text is no valid time.
parse_time(time_str) ==
    LET s == Strip(time_str)
        n == Len(s)
        shape == /\ n \in {4, 5}
                 /\ s[n - 2] = ":"
                 /\ AllDigits(SubSeq(s, 1, n - 3))
                 /\ AllDigits(SubSeq(s, n - 1, n))
    IN  IF ~shape THEN NoText
        ELSE LET hour == IntOf(SubSeq(s, 1, n - 3))
                 minute == IntOf(SubSeq(s, n - 1, n))
             IN  IF 0 <= hour /\ hour < 24 /\ 0 <= minute /\ minute < 60
                 THEN Format02(hour) \o <<":">> \o Format02(minute)
                 ELSE NoText

\* The zones the tz database holds under exactly this key (ZoneInfo).
ZoneInfoKeys == {"Europe/Rome", "UTC"}

\* pytz.timezone looks the name up case-insensitively.
PytzCanonical(tz_str) ==
    CASE tz_str \in ZoneInfoKeys -> tz_str
      [] tz_str = "europe/rome" -> "Europe/Rome"
      [] OTHER -> ""

validate_timezone(tz_str) == PytzCanonical(tz_str) # ""

(***************************************************************************)
(* app/config.py                                                           *)
(***************************************************************************)
DEFAULT_TIMEZONE == "Europe/Rome"
DEFAULT_NOTIFY_TIME == <<"0", "9", ":", "0", "0">>

(***************************************************************************)
(* app/config.py: the Config class attributes, read from the environment,  *)
(* and the choice of storage backend.                                      *)
(***************************************************************************)
\* Environment values
BotTokens == {"", "token"}
DatabaseUrls == {"", "postgres://db"}
ProjectIds == {"", "exam-bot"}
CredentialPaths == {"", "/key.json", "/gone.json"}   \* unset, a readable file, no file
CredentialJsons == {"", "{json}", "garbage"}         \* unset, a JSON text, not JSON

Environment ==
    [BOT_TOKEN : BotTokens, DATABASE_URL : DatabaseUrls, USE_FIRESTORE : BOOLEAN,
     FIREBASE_PROJECT_ID : ProjectIds,
     GOOGLE_APPLICATION_CREDENTIALS : CredentialPaths,
     FIREBASE_CREDENTIALS : CredentialJsons]

\* cred_file of _setup_firebase_credentials
cred_file == "/tmp/firebase-key.json"

\* os.path.exists
path_exists(path) == path \in {"/key.json", cred_file}

\* json.loads does not raise
json_loads(text) == text = "{json}"

\* The class attributes as the class body leaves them, and the module state of
\* app/db.py and app/firestore_db.py before init_db.  env keeps the environment.
ClassBody(env) ==
    [BOT_TOKEN |-> env.BOT_TOKEN,
     DATABASE_URL |-> env.DATABASE_URL,
     USE_FIRESTORE |-> env.USE_FIRESTORE,
     FIREBASE_PROJECT_ID |-> env.FIREBASE_PROJECT_ID,
     GOOGLE_APPLICATION_CREDENTIALS |-> env.GOOGLE_APPLICATION_CREDENTIALS,
     FIREBASE_CREDENTIALS |-> env.FIREBASE_CREDENTIALS,
     env |-> env,
     stage |-> "import",              \* "import", "imported", "ready", "exited"
     firestore_db |-> FALSE,          \* app/db.py imported app.firestore_db
     _firestore_initialized |-> FALSE,
     _db |-> FALSE,                   \* firestore_db._db is a client
     init_threw |-> FALSE,            \* history: init_firestore raised in init_db
     schema |-> "none"]               \* the relational tables exist: where

use_postgres(cls) == cls.DATABASE_URL # ""

use_firestore(cls) == cls.USE_FIRESTORE \/ cls.FIREBASE_PROJECT_ID # ""

_setup_firebase_credentials(cls) ==
    IF ~use_firestore(cls) THEN [raised |-> FALSE, cls |-> cls]
    ELSE IF cls.GOOGLE_APPLICATION_CREDENTIALS # ""
            /\ path_exists(cls.GOOGLE_APPLICATION_CREDENTIALS)
    THEN [raised |-> FALSE, cls |-> cls]
    ELSE IF cls.FIREBASE_CREDENTIALS # ""
    THEN IF json_loads(cls.FIREBASE_CREDENTIALS)
         THEN [raised |-> FALSE,
               cls |-> [cls EXCEPT !.GOOGLE_APPLICATION_CREDENTIALS = cred_file]]
         ELSE [raised |-> TRUE, cls |-> cls]
    ELSE [raised |-> TRUE, cls |-> cls]

\* Config.validate, run when app.config is imported
validate(cls) ==
    LET off == [cls EXCEPT !.USE_FIRESTORE = FALSE]
        s == _setup_firebase_credentials(cls)
    IN  IF cls.BOT_TOKEN = "" THEN [raised |-> TRUE, cls |-> cls]
        ELSE IF ~use_firestore(cls) THEN [raised |-> FALSE, cls |-> cls]
        ELSE IF cls.FIREBASE_PROJECT_ID = "" THEN [raised |-> FALSE, cls |-> off]
        ELSE IF cls.GOOGLE_APPLICATION_CREDENTIALS = "" /\ cls.FIREBASE_CREDENTIALS = ""
        THEN [raised |-> FALSE, cls |-> off]
        ELSE IF s.raised THEN [raised |-> FALSE, cls |-> off]
        ELSE [raised |-> FALSE, cls |-> s.cls]

\* firestore_db.init_firestore.  client_ok: the key file holds a usable service
\* account and the client can be built.
init_firestore(cls, client_ok) ==
    IF path_exists(cls.GOOGLE_APPLICATION_CREDENTIALS) /\ client_ok
    THEN [raised |-> FALSE, cls |-> [cls EXCEPT !._db = TRUE]]
    ELSE [raised |-> TRUE, cls |-> cls]

\* db.get_db opens a connection.  connect_ok: psycopg2 is installed and connects.
get_db(cls, connect_ok) ==
    IF use_postgres(cls)
    THEN [raised |-> ~connect_ok, kind |-> "postgres"]
    ELSE [raised |-> FALSE, kind |-> "sqlite"]

\* db.init_db
init_db(cls, client_ok, connect_ok) ==
    LET f == init_firestore(cls, client_ok)
        afterFirestore ==
            IF ~use_firestore(cls) THEN cls
            ELSE IF f.raised
            THEN [cls EXCEPT !.USE_FIRESTORE = FALSE, !.init_threw = TRUE]
            ELSE [f.cls EXCEPT !._firestore_initialized = TRUE]
        c == get_db(afterFirestore, connect_ok)
    IN  IF use_firestore(afterFirestore)
        THEN [raised |-> FALSE, cls |-> afterFirestore]
        ELSE IF c.raised THEN [raised |-> TRUE, cls |-> afterFirestore]
        ELSE [raised |-> FALSE, cls |-> [afterFirestore EXCEPT !.schema = c.kind]]

\* The backend a storage call is routed to: every function of app/db.py tests
\* Config.use_firestore() first and Config.use_postgres() inside get_db
Route(cls) ==
    IF use_firestore(cls) THEN "firestore"
    ELSE IF use_postgres(cls) THEN "postgres" ELSE "sqlite"

\* The process after a start that brought it to polling, per backend
EnvFor(be) ==
    [BOT_TOKEN |-> "token",
     DATABASE_URL |-> IF be = "postgres" THEN "postgres://db" ELSE "",
     USE_FIRESTORE |-> be = "firestore",
     FIREBASE_PROJECT_ID |-> IF be = "firestore" THEN "exam-bot" ELSE "",
     GOOGLE_APPLICATION_CREDENTIALS |-> IF be = "firestore" THEN "/key.json" ELSE "",
     FIREBASE_CREDENTIALS |-> ""]

Started(be) ==
    LET v == validate(ClassBody(EnvFor(be))).cls
        imported == [v EXCEPT !.firestore_db = use_firestore(v)]
    IN  [init_db(imported, TRUE, TRUE).cls EXCEPT !.stage = "ready"]

(***************************************************************************)
(* app/db.py and app/firestore_db.py: the users table.                     *)
(* users is a function from the stored user ids to their rows.             *)
(***************************************************************************)
\* SQL NULL / Python None in a name column
NULL == "<null>"

\* The relational database of a started process: the tables and the unique
\* index on (user_id, user_exam_id) exist, no connection is open and no call
\* of another process is under way
NoDb == [tables |-> TRUE, index |-> TRUE, open |-> 0, calls |-> <<>>]

IsFirestore(be) == be = "firestore"

NewUserRow(first_name, username) ==
    [timezone |-> DEFAULT_TIMEZONE, notify_time |-> DEFAULT_NOTIFY_TIME,
     first_name |-> first_name, username |-> username]

\* COALESCE(?, column)
Coalesce(v, old) == IF v = NULL THEN old ELSE v

\* Python truthiness of an optional string argument
Truthy(v) == v # NULL /\ v # ""

\* firestore_db.get_or_create_user(user_id)
firestore_get_or_create_user(us, user_id) ==
    IF user_id \in DOMAIN us
    THEN [ok |-> TRUE, users |-> us, user |-> us[user_id]]
    ELSE LET row == NewUserRow(NULL, NULL)
         IN  [ok |-> TRUE, users |-> us @@ (user_id :> row), user |-> row]

\* db.get_or_create_user(user_id, first_name, username).  On Firestore the call
\* passes three positional arguments to firestore_db.get_or_create_user, which
\* takes one: Python raises TypeError before the function body runs.
get_or_create_user(us, be, user_id, first_name, username) ==
    IF IsFirestore(be)
    THEN [ok |-> FALSE, users |-> us, user |-> NewUserRow(NULL, NULL)]
    ELSE IF user_id \notin DOMAIN us
    THEN LET row == NewUserRow(first_name, username)
         IN  [ok |-> TRUE, users |-> us @@ (user_id :> row), user |-> row]
    ELSE IF Truthy(first_name) \/ Truthy(username)
    THEN LET row == [us[user_id] EXCEPT
                        !.first_name = Coalesce(first_name, @),
                        !.username = Coalesce(username, @)]
         IN  [ok |-> TRUE, users |-> [us EXCEPT ![user_id] = row], user |-> row]
    ELSE [ok |-> TRUE, users |-> us, user |-> us[user_id]]

\* db.update_user_notify_time: UPDATE ... WHERE user_id = ? matches no row for an
\* absent user; Firestore's document update raises NotFound for an absent document.
update_user_notify_time(us, be, user_id, notify_time) ==
    IF user_id \in DOMAIN us
    THEN [ok |-> TRUE, users |-> [us EXCEPT ![user_id].notify_time = notify_time]]
    ELSE [ok |-> ~IsFirestore(be), users |-> us]

\* db.update_user_timezone
update_user_timezone(us, be, user_id, timezone) ==
    IF user_id \in DOMAIN us
    THEN [ok |-> TRUE, users |-> [us EXCEPT ![user_id].timezone = timezone]]
    ELSE [ok |-> ~IsFirestore(be), users |-> us]

\* The dispatcher bodies in flight, over all users
RECURSIVE SumOver(_, _)
SumOver(f, S) ==
    IF S = {} THEN 0
    ELSE LET x == CHOOSE y \in S : TRUE IN f[x] + SumOver(f, S \ {x})

RECURSIVE SortedIds(_)
SortedIds(S) ==
    IF S = {} THEN <<>>
    ELSE LET m == CHOOSE x \in S : \A y \in S : x <= y
         IN  <<m>> \o SortedIds(S \ {m})

\* ASCII code of the characters that occur in document ids and ISO date texts
CharCode(c) ==
    CASE c = "-" -> 45
      [] c \in DigitChars -> 48 + DigitVal(c)
      [] c = ":" -> 58
      [] c = "T" -> 84

\* Text comparison as the stores do it: code by code, a proper prefix first
TextLess(a, b) ==
    \E k \in 0..Len(a) :
        /\ k <= Len(b)
        /\ \A i \in 1..k : a[i] = b[i]
        /\ IF k = Len(a) THEN k < Len(b)
           ELSE k < Len(b) /\ CharCode(a[k + 1]) < CharCode(b[k + 1])

\* str(user_id): the Firestore document id of a user
RECURSIVE Str(_)
Str(n) == IF n < 10 THEN <<DigitChar(n)>> ELSE Str(n \div 10) \o <<DigitChar(n % 10)>>

\* firestore_db.get_all_users: db.collection('users').stream() with no order_by;
\* Firestore returns the documents in ascending order of their document id, a
\* text
RECURSIVE firestore_get_all_users(_)
firestore_get_all_users(S) ==
    IF S = {} THEN <<>>
    ELSE LET m == CHOOSE x \in S : \A y \in S \ {x} : TextLess(Str(x), Str(y))
         IN  <<m>> \o firestore_get_all_users(S \ {m})

\* db.get_all_users: SELECT * FROM users ORDER BY user_id on the relational
\* backends.  The result is the list of user ids, each row read from users.
get_all_users(us, be) ==
    IF IsFirestore(be) THEN firestore_get_all_users(DOMAIN us)
    ELSE SortedIds(DOMAIN us)

(***************************************************************************)
(* Storage port: exams.  A row is [user_id, user_exam_id, title,           *)
(* exam_datetime_iso]; the sequence is in insertion order (ORDER BY id);   *)
(* user_exam_id 0 stands for NULL.                                         *)
(***************************************************************************)
MaxOfSet(S) == IF S = {} THEN 0 ELSE CHOOSE m \in S : \A x \in S : x <= m

UserRows(ex, user_id) == SelectSeq(ex, LAMBDA r : r.user_id = user_id)

UserExamIds(ex, user_id) ==
    {ex[i].user_exam_id : i \in {j \in 1..Len(ex) : ex[j].user_id = user_id}}

\* Variant: every row is numbered again, whether or not it has an id
_backfill_user_exam_id_all_rows(ex) ==
    [i \in 1..Len(ex) |->
        [ex[i] EXCEPT !.user_exam_id =
            Cardinality({j \in 1..i : ex[j].user_id = ex[i].user_id})]]

\* _backfill_user_exam_id(cursor): per user, the rows with a NULL user_exam_id get
\* 1, 2, ... in id order
_backfill_user_exam_id(ex) ==
    [i \in 1..Len(ex) |->
        IF ex[i].user_exam_id # 0 THEN ex[i]
        ELSE [ex[i] EXCEPT !.user_exam_id =
                 Cardinality({j \in 1..i : /\ ex[j].user_id = ex[i].user_id
                                           /\ ex[j].user_exam_id = 0})]]

\* Two rows of one user hold the same user_exam_id
HasDuplicateIds(ex) ==
    \E i, j \in 1..Len(ex) :
        /\ i < j
        /\ ex[i].user_id = ex[j].user_id
        /\ ex[i].user_exam_id # 0
        /\ ex[i].user_exam_id = ex[j].user_exam_id

\* _ensure_user_exam_id(conn, cursor) on a table whose unique index on
\* (user_id, user_exam_id) exists or not.  The UPDATEs of the backfill run in one
\* transaction.  With the index, an UPDATE that repeats an id of the user
\* raises: rollback, raise.  Without it, CREATE UNIQUE INDEX fails on the
\* repeated ids and the failure is only logged; the commit that follows keeps
\* the UPDATEs on SQLite, and on PostgreSQL ends the aborted transaction by
\* rolling it back.
_ensure_user_exam_id(ex, be, index) ==
    LET filled == _backfill_user_exam_id(ex)
    IN  IF ~HasDuplicateIds(filled)
        THEN [raised |-> FALSE, exams |-> filled, index |-> TRUE]
        ELSE IF index THEN [raised |-> TRUE, exams |-> ex, index |-> TRUE]
        ELSE IF be = "postgres"
        THEN [raised |-> FALSE, exams |-> ex, index |-> FALSE]
        ELSE [raised |-> FALSE, exams |-> filled, index |-> FALSE]

\* Variant: the next id is taken over the exams of all users
_next_user_exam_id_global(ex, user_id) ==
    MaxOfSet({ex[i].user_exam_id : i \in 1..Len(ex)}) + 1

\* Variant: the next id is the number of the user's rows plus one
_next_user_exam_id_count(ex, user_id) == Len(UserRows(ex, user_id)) + 1

\* Variant: the next id is the lowest positive number no row of the user holds
_next_user_exam_id_first_free(ex, user_id) ==
    CHOOSE k \in 1..(Len(ex) + 1) :
        /\ k \notin UserExamIds(ex, user_id)
        /\ \A j \in 1..(k - 1) : j \in UserExamIds(ex, user_id)

\* _next_user_exam_id(cursor, user_id): COALESCE(MAX(user_exam_id), 0) + 1 over
\* the user's rows
_next_user_exam_id(ex, user_id) == MaxOfSet(UserExamIds(ex, user_id)) + 1

\* firestore_db.add_exam: max over the documents of the user's sub-collection,
\* plus one; the document is written under that id
firestore_add_exam(ex, user_id, title, exam_datetime_iso) ==
    LET user_exam_id == MaxOfSet(UserExamIds(ex, user_id)) + 1
    IN  [ok |-> TRUE,
         exams |-> Append(ex, [user_id |-> user_id, user_exam_id |-> user_exam_id,
                               title |-> title,
                               exam_datetime_iso |-> exam_datetime_iso]),
         result |-> user_exam_id]

\* db.add_exam(user_id, title, exam_datetime_iso).  On PostgreSQL the foreign key
\* on user_id rejects the insert when the user has no row; SQLite does not
\* enforce it.
add_exam(ex, us, be, user_id, title, exam_datetime_iso) ==
    IF IsFirestore(be) THEN firestore_add_exam(ex, user_id, title, exam_datetime_iso)
    ELSE LET m == _ensure_user_exam_id(ex, be, db.index)
             migrated == m.exams
             user_exam_id == _next_user_exam_id(migrated, user_id)
         IN  IF be = "postgres" /\ user_id \notin DOMAIN us
             THEN [ok |-> FALSE, exams |-> migrated, result |-> 0,
                   index |-> m.index, migrated |-> ~m.raised]
             ELSE [ok |-> TRUE,
                   exams |-> Append(migrated,
                                    [user_id |-> user_id,
                                     user_exam_id |-> user_exam_id,
                                     title |-> title,
                                     exam_datetime_iso |-> exam_datetime_iso]),
                   result |-> user_exam_id,
                   index |-> m.index, migrated |-> ~m.raised]

\* The failures of the environment in the migration steps of init_db: none, a
\* statement of _ensure_user_exam_id, a statement of _ensure_user_info_columns
MigrationFaults == {"none", "exam_id", "info_columns"}

\* db.init_db on a relational backend: CREATE TABLE IF NOT EXISTS for users and
\* exams, then the two migration steps, each in a try that logs the exception,
\* all on the connection of one get_db block.  d is the database, ex the exams
\* table.  A rollback in a failed step undoes the CREATE TABLEs of this run on
\* PostgreSQL, where they are part of the open transaction; SQLite runs them
\* outside a transaction.
init_db_relational(d, ex, be, fault) ==
    LET m == _ensure_user_exam_id(ex, be, d.index)
        conn == d.open + 1
        undone == be = "postgres" /\ ~d.tables
    IN  IF fault = "exam_id"
        THEN [raised |-> FALSE, exams |-> ex, index |-> d.index,
              tables |-> ~undone, migrated |-> FALSE, open |-> conn - 1]
        ELSE [raised |-> FALSE, exams |-> m.exams, index |-> m.index,
              tables |-> TRUE, migrated |-> ~m.raised, open |-> conn - 1]

\* WHERE user_exam_id = ? AND user_id = ? / the document exams/<user_exam_id> of
\* the user
ExamMatches(r, user_exam_id, user_id) ==
    r.user_exam_id = user_exam_id /\ r.user_id = user_id

ExamExists(ex, user_exam_id, user_id) ==
    \E i \in 1..Len(ex) : ExamMatches(ex[i], user_exam_id, user_id)

\* Variant: the rows with this per-user id, whoever owns them
RemoveExam_any_user(ex, user_exam_id, user_id) ==
    SelectSeq(ex, LAMBDA r : r.user_exam_id # user_exam_id)

RemoveExam(ex, user_exam_id, user_id) ==
    SelectSeq(ex, LAMBDA r : ~(r.user_exam_id = user_exam_id /\ r.user_id = user_id))

\* db.delete_exam(user_exam_id, user_id): rowcount > 0 on the relational
\* backends; firestore_db.delete_exam returns True whether or not the document
\* existed
delete_exam(ex, be, user_exam_id, user_id) ==
    LET kept == RemoveExam(ex, user_exam_id, user_id)
    IN  [exams |-> kept,
         result |-> IF IsFirestore(be) THEN TRUE ELSE Len(kept) < Len(ex)]

\* Variant: both columns are written, whether or not the argument was supplied
UpdateFields_all_columns(ex, user_exam_id, user_id, title, exam_datetime_iso) ==
    [i \in 1..Len(ex) |->
        IF ExamMatches(ex[i], user_exam_id, user_id)
        THEN [ex[i] EXCEPT !.title = title, !.exam_datetime_iso = exam_datetime_iso]
        ELSE ex[i]]

\* The SET clause / update_data: a field that is None keeps its stored value
UpdateFields(ex, user_exam_id, user_id, title, exam_datetime_iso) ==
    [i \in 1..Len(ex) |->
        IF ExamMatches(ex[i], user_exam_id, user_id)
        THEN [ex[i] EXCEPT
                 !.title = IF title = NULL THEN @ ELSE title,
                 !.exam_datetime_iso =
                     IF exam_datetime_iso = NoText THEN @ ELSE exam_datetime_iso]
        ELSE ex[i]]

\* firestore_db.update_exam: False when the document does not exist, otherwise
\* the supplied fields are written (none, if none was supplied) and True
firestore_update_exam(ex, user_exam_id, user_id, title, exam_datetime_iso) ==
    IF ~ExamExists(ex, user_exam_id, user_id)
    THEN [exams |-> ex, result |-> FALSE]
    ELSE [exams |-> UpdateFields(ex, user_exam_id, user_id, title, exam_datetime_iso),
          result |-> TRUE]

\* db.update_exam(user_exam_id, user_id, title, exam_datetime_iso): with no field
\* supplied the relational branch returns False before it reaches the database;
\* otherwise rowcount > 0.  title NULL and exam_datetime_iso NoText are None.
update_exam(ex, be, user_exam_id, user_id, title, exam_datetime_iso) ==
    IF IsFirestore(be)
    THEN firestore_update_exam(ex, user_exam_id, user_id, title, exam_datetime_iso)
    ELSE IF title = NULL /\ exam_datetime_iso = NoText
    THEN [exams |-> ex, result |-> FALSE]
    ELSE [exams |-> UpdateFields(ex, user_exam_id, user_id, title, exam_datetime_iso),
          result |-> ExamExists(ex, user_exam_id, user_id)]

\* Variant: the user's rows in insertion order
get_user_exams_by_id(ex, user_id) == {UserRows(ex, user_id)}

\* db.get_user_exams / firestore_db.get_user_exams: the user's rows ORDER BY
\* exam_datetime_iso, a text column.  Neither store fixes the order of rows with
\* equal texts, so the operator is the set of the lists a call can return.
get_user_exams(ex, user_id) ==
    LET rows == UserRows(ex, user_id)
        n == Len(rows)
        Orders == {q \in [1..n -> 1..n] :
                      /\ \A i, j \in 1..n : q[i] = q[j] => i = j
                      /\ \A i \in 1..(n - 1) :
                            ~TextLess(rows[q[i + 1]].exam_datetime_iso,
                                      rows[q[i]].exam_datetime_iso)}
    IN  {[i \in 1..n |-> rows[q[i]]] : q \in Orders}

\* db.get_exam_by_id / firestore_db.get_exam_by_id: the user's row with this
\* per-user id, or None (found FALSE)
get_exam_by_id(ex, user_exam_id, user_id) ==
    LET hits == SelectSeq(ex, LAMBDA r : ExamMatches(r, user_exam_id, user_id))
    IN  IF hits = <<>> THEN [found |-> FALSE, exam |-> <<>>]
        ELSE [found |-> TRUE, exam |-> hits[1]]

(***************************************************************************)
(* app/utils.py: the countdown of an exam and the reminder text.           *)
(* now is a UTC instant [ordinal, minute]: the proleptic Gregorian ordinal *)
(* of the day (date.toordinal) and the minute of the day.                  *)
(***************************************************************************)
\* datetime.date.toordinal, as the standard library computes it
is_leap(year) == year % 4 = 0 /\ (year % 100 # 0 \/ year % 400 = 0)

days_before_year(year) ==
    LET y == year - 1 IN y * 365 + y \div 4 - y \div 100 + y \div 400

DAYS_BEFORE_MONTH == <<0, 31, 59, 90, 120, 151, 181, 212, 243, 273, 304, 334>>

days_before_month(year, month) ==
    DAYS_BEFORE_MONTH[month] + (IF month > 2 /\ is_leap(year) THEN 1 ELSE 0)

toordinal(year, month, day) ==
    days_before_year(year) + days_before_month(year, month) + day

\* datetime.fromisoformat of "YYYY-MM-DDTHH:MM:SS"
fromisoformat(iso) ==
    [year |-> IntOf(SubSeq(iso, 1, 4)), month |-> IntOf(SubSeq(iso, 6, 7)),
     day |-> IntOf(SubSeq(iso, 9, 10)), hour |-> IntOf(SubSeq(iso, 12, 13)),
     minute |-> IntOf(SubSeq(iso, 15, 16))]

\* The offset of a zone from UTC in minutes, in the winter days the model's clock
\* runs through (Europe/Rome is on CET)
utcoffset(tz) == IF tz = "Europe/Rome" THEN 60 ELSE 0

\* datetime.now(tz).replace(tzinfo=None): the wall clock of the zone
local_now(user_timezone) ==
    LET t == now.minute + utcoffset(PytzCanonical(user_timezone))
    IN  [ordinal |-> now.ordinal + t \div 1440, minute |-> t % 1440]

\* Variant: the difference of the two datetimes in whole days
days_until_by_datetime(exam_dt, local) ==
    LET exam_minutes == toordinal(exam_dt.year, exam_dt.month, exam_dt.day) * 1440
                        + exam_dt.hour * 60 + exam_dt.minute
    IN  (exam_minutes - (local.ordinal * 1440 + local.minute)) \div 1440

\* days = (exam_date - today_date).days
days_until(exam_dt, local) ==
    toordinal(exam_dt.year, exam_dt.month, exam_dt.day) - local.ordinal

MsgPassed == <<"p", "a", "s", "s", "e", "d">>
MsgToday == <<"t", "o", "d", "a", "y">>
MsgTomorrow == <<"t", "o", "m", "o", "r", "r", "o", "w">>
MsgDaysLeft == <<" ", "d", "a", "y", "s", " ", "l", "e", "f", "t">>

\* utils.format_exam_countdown: (formatted_message, days_until)
format_exam_countdown(exam_datetime_iso, user_timezone) ==
    LET days == days_until(fromisoformat(exam_datetime_iso), local_now(user_timezone))
    IN  IF days < 0 THEN [msg |-> MsgPassed, days |-> days]
        ELSE IF days = 0 THEN [msg |-> MsgToday, days |-> 0]
        ELSE IF days = 1 THEN [msg |-> MsgTomorrow, days |-> 1]
        ELSE [msg |-> Str(days) \o MsgDaysLeft, days |-> days]

\* A line "- {title} - {countdown_msg}" of the reminder
ReminderLine(exam, user_timezone) ==
    [title |-> exam.title,
     countdown_msg |-> format_exam_countdown(exam.exam_datetime_iso, user_timezone).msg]

\* None of get_upcoming_exams_message; a message has at least one line
NoMessage == <<>>

\* Variant: every exam gets a line
get_upcoming_exams_message_unfiltered(exams_list, user_timezone) ==
    [i \in 1..Len(exams_list) |-> ReminderLine(exams_list[i], user_timezone)]

\* utils.get_upcoming_exams_message: the lines under the header, or None
get_upcoming_exams_message(exams_list, user_timezone) ==
    LET upcoming ==
            SelectSeq(exams_list,
                      LAMBDA exam : format_exam_countdown(exam.exam_datetime_iso,
                                                          user_timezone).days >= 0)
    IN  [i \in 1..Len(upcoming) |-> ReminderLine(upcoming[i], user_timezone)]

\* calendar: the days of a month, as datetime() checks them
days_in_month(year, month) ==
    IF month = 2 THEN (IF is_leap(year) THEN 29 ELSE 28)
    ELSE IF month \in {4, 6, 9, 11} THEN 30 ELSE 31

\* f"{n:04d}"
Format04(n) ==
    <<DigitChar(n \div 1000), DigitChar((n \div 100) % 10),
      DigitChar((n \div 10) % 10), DigitChar(n % 10)>>

\* datetime(year, month, day, hour, minute).isoformat(), NoText where datetime()
\* raises ValueError
isoformat(year, month, day, hour, minute) ==
    IF /\ year >= 1
       /\ month \in 1..12
       /\ day >= 1 /\ day <= days_in_month(year, month)
       /\ hour < 24 /\ minute < 60
    THEN Format04(year) \o <<"-">> \o Format02(month) \o <<"-">> \o Format02(day)
         \o <<"T">> \o Format02(hour) \o <<":">> \o Format02(minute)
         \o <<":", "0", "0">>
    ELSE NoText

\* utils.parse_exam_datetime(date_str), default_time "09:00": the ISO text or
\* NoText for None.  re.match anchors the first pattern at the start only.
parse_exam_datetime(date_str) ==
    LET s == Strip(date_str)
        n == Len(s)
        dateShape == /\ n >= 10
                     /\ AllDigits(SubSeq(s, 1, 4)) /\ s[5] = "-"
                     /\ AllDigits(SubSeq(s, 6, 7)) /\ s[8] = "-"
                     /\ AllDigits(SubSeq(s, 9, 10))
        rest == LStrip(SubSeq(s, 11, n))
        withTime == /\ dateShape /\ n > 10 /\ s[11] = " "
                    /\ Len(rest) >= 5
                    /\ AllDigits(SubSeq(rest, 1, 2)) /\ rest[3] = ":"
                    /\ AllDigits(SubSeq(rest, 4, 5))
        year == IntOf(SubSeq(s, 1, 4))
        month == IntOf(SubSeq(s, 6, 7))
        day == IntOf(SubSeq(s, 9, 10))
    IN  IF withTime
        THEN isoformat(year, month, day, IntOf(SubSeq(rest, 1, 2)),
                       IntOf(SubSeq(rest, 4, 5)))
        ELSE IF dateShape /\ n = 10 THEN isoformat(year, month, day, 9, 0)
        ELSE NoText

\* The clock of the model starts on 2026-01-09 at 12:00 UTC
Now0 == [ordinal |-> toordinal(2026, 1, 9), minute |-> 720]


(***************************************************************************)
(* app/scheduler.py: the job registry.                                     *)
(* jobs is the sequence of live jobs of application.job_queue; a job is    *)
(* [name, data, trigger].                                                  *)
(***************************************************************************)
\* job_name = f"daily:{user_id}"
JobName(user_id) == <<"daily", user_id>>

\* job_queue.get_jobs_by_name(job_name)
get_jobs_by_name(js, name) == SelectSeq(js, LAMBDA j : j.name = name)

\* job.schedule_removal() for every job of get_jobs_by_name(job_name)
RemoveJobsByName(js, name) == SelectSeq(js, LAMBDA j : j.name # name)

\* ZoneInfo(timezone_str), with pytz.timezone(timezone_str) as the fallback:
\* the zone the trigger ends up with, "" when both raise.
ResolveZone(timezone_str) ==
    IF timezone_str \in ZoneInfoKeys THEN timezone_str ELSE PytzCanonical(timezone_str)

\* job_queue.run_daily(send_daily_reminder, time=time(hour, minute, tzinfo=tz), ...)
DailyTrigger(hour, minute, zone) ==
    [kind |-> "daily", hour |-> hour, minute |-> minute, zone |-> zone,
     interval |-> 0, first |-> 0]

\* job_queue.run_repeating(send_daily_reminder, interval=60, first=5, ...)
FastTrigger ==
    [kind |-> "interval", hour |-> 0, minute |-> 0, zone |-> "",
     interval |-> 60, first |-> 5]

\* hour, minute = map(int, notify_time_str.split(':')) succeeds, and
\* time(hour=hour, minute=minute) accepts the values
TimeParses(notify_time_str) ==
    LET parts == SplitColon(notify_time_str, <<>>, <<>>)
    IN  /\ Len(parts) = 2
        /\ \A i \in 1..2 : Len(Strip(parts[i])) > 0 /\ AllDigits(Strip(parts[i]))
        /\ IntOf(Strip(parts[1])) < 24
        /\ IntOf(Strip(parts[2])) < 60

\* The trigger install registers for (notify_time_str, timezone_str)
TriggerFor(dbg, notify_time_str, timezone_str) ==
    IF dbg THEN FastTrigger
    ELSE LET parts == SplitColon(notify_time_str, <<>>, <<>>)
         IN  DailyTrigger(IntOf(Strip(parts[1])), IntOf(Strip(parts[2])),
                          ResolveZone(timezone_str))

\* Variant: the jobs found by name are not removed before the new one is added
schedule_user_reminder_no_removal(js, jq, dbg, user_id, notify_time_str, timezone_str, reg_ok) ==
    IF ~jq THEN [jobs |-> js, raised |-> FALSE, registered |-> FALSE]
    ELSE IF ~TimeParses(notify_time_str) \/ ResolveZone(timezone_str) = "" \/ ~reg_ok
    THEN [jobs |-> js, raised |-> TRUE, registered |-> FALSE]
    ELSE [jobs |-> Append(js, [name |-> JobName(user_id), data |-> user_id,
                               trigger |-> TriggerFor(dbg, notify_time_str,
                                                      timezone_str)]),
          raised |-> FALSE, registered |-> TRUE]

\* Variant: a user who already has a job keeps it and no new one is added
schedule_user_reminder_keep_existing(js, jq, dbg, user_id, notify_time_str, timezone_str, reg_ok) ==
    IF ~jq \/ Len(get_jobs_by_name(js, JobName(user_id))) > 0
    THEN [jobs |-> js, raised |-> FALSE, registered |-> FALSE]
    ELSE IF ~TimeParses(notify_time_str) \/ ResolveZone(timezone_str) = "" \/ ~reg_ok
    THEN [jobs |-> js, raised |-> TRUE, registered |-> FALSE]
    ELSE [jobs |-> Append(js, [name |-> JobName(user_id), data |-> user_id,
                               trigger |-> TriggerFor(dbg, notify_time_str,
                                                      timezone_str)]),
          raised |-> FALSE, registered |-> TRUE]

\* Variant: the new job is registered under the name "daily", without the user id
schedule_user_reminder_shared_name(js, jq, dbg, user_id, notify_time_str, timezone_str, reg_ok) ==
    IF ~jq THEN [jobs |-> js, raised |-> FALSE, registered |-> FALSE]
    ELSE LET removed == RemoveJobsByName(js, JobName(user_id))
         IN  IF ~TimeParses(notify_time_str) \/ ResolveZone(timezone_str) = "" \/ ~reg_ok
             THEN [jobs |-> removed, raised |-> TRUE, registered |-> FALSE]
             ELSE [jobs |-> Append(removed,
                                   [name |-> <<"daily", 0>>, data |-> user_id,
                                    trigger |-> TriggerFor(dbg, notify_time_str,
                                                           timezone_str)]),
                   raised |-> FALSE, registered |-> TRUE]

\* Variant: the existing jobs are removed and nothing is registered
schedule_user_reminder_cancel_only(js, jq, dbg, user_id, notify_time_str, timezone_str, reg_ok) ==
    IF ~jq THEN [jobs |-> js, raised |-> FALSE, registered |-> FALSE]
    ELSE [jobs |-> RemoveJobsByName(js, JobName(user_id)), raised |-> FALSE,
          registered |-> FALSE]

\* schedule_user_reminder(application, user_id, notify_time_str, timezone_str).
\* reg_ok: the trigger registration (run_daily / run_repeating) does not raise.
\* Result: the registry afterwards, whether the call raised, whether a job was
\* registered.
schedule_user_reminder(js, jq, dbg, user_id, notify_time_str, timezone_str, reg_ok) ==
    IF ~jq THEN [jobs |-> js, raised |-> FALSE, registered |-> FALSE]
    ELSE LET removed == RemoveJobsByName(js, JobName(user_id))
         IN  IF \/ ~TimeParses(notify_time_str)
                \/ ResolveZone(timezone_str) = ""
                \/ ~reg_ok
             THEN [jobs |-> removed, raised |-> TRUE, registered |-> FALSE]
             ELSE [jobs |-> Append(removed,
                                   [name |-> JobName(user_id), data |-> user_id,
                                    trigger |-> TriggerFor(dbg, notify_time_str,
                                                           timezone_str)]),
                   raised |-> FALSE, registered |-> TRUE]

\* reschedule_user_reminder(application, user_id): re-read the user, then install.
\* Result: ok (no call raised), the storage and registry afterwards, called
\* (install was called) and user, the row whose preferences it was given.
reschedule_user_reminder(us, js, be, jq, dbg, user_id, reg_ok) ==
    LET g == get_or_create_user(us, be, user_id, NULL, NULL)
    IN  IF ~g.ok
        THEN [ok |-> FALSE, users |-> us, jobs |-> js, called |-> FALSE,
              user |-> g.user]
        ELSE LET r == schedule_user_reminder(js, jq, dbg, user_id,
                                             g.user.notify_time, g.user.timezone,
                                             reg_ok)
             IN  [ok |-> ~r.raised, users |-> g.users, jobs |-> r.jobs,
                  called |-> TRUE, user |-> g.user]

\* ensure_user_scheduled(application, user_id): install from storage only when the
\* user has no live job.
ensure_user_scheduled(us, js, be, jq, dbg, user_id, reg_ok) ==
    IF jq /\ Len(get_jobs_by_name(js, JobName(user_id))) > 0
    THEN [ok |-> TRUE, users |-> us, jobs |-> js, called |-> FALSE,
          user |-> NewUserRow(NULL, NULL)]
    ELSE reschedule_user_reminder(us, js, be, jq, dbg, user_id, reg_ok)

\* schedule_all_users(application): install for every stored user in
\* get_all_users order; an install that raises ends the loop (nothing catches it).
\* fail_at: the position whose trigger registration raises (0: none).
\* Result: the registry, whether an install raised and for which user, and the
\* number of install calls that returned.
RECURSIVE ScheduleFrom(_, _, _, _, _, _, _)
ScheduleFrom(us, js, jq, dbg, ids, i, fail_at) ==
    IF i > Len(ids) THEN [jobs |-> js, raised |-> FALSE, failed |-> 0, done |-> i - 1]
    ELSE LET u == ids[i]
             r == schedule_user_reminder(js, jq, dbg, u, us[u].notify_time,
                                         us[u].timezone, i # fail_at)
         IN  IF r.raised
             THEN [jobs |-> r.jobs, raised |-> TRUE, failed |-> u, done |-> i - 1]
             ELSE ScheduleFrom(us, r.jobs, jq, dbg, ids, i + 1, fail_at)

\* Variant: the first user returned by get_all_users is left out
schedule_all_users_skip_first(us, js, be, jq, dbg, fail_at) ==
    LET ids == get_all_users(us, be)
    IN  ScheduleFrom(us, js, jq, dbg, IF ids = <<>> THEN ids ELSE Tail(ids), 1,
                     fail_at)

\* schedule_all_users(application): install every user of get_all_users, in
\* order; an exception of an install leaves the loop
schedule_all_users(us, js, be, jq, dbg, fail_at) ==
    ScheduleFrom(us, js, jq, dbg, get_all_users(us, be), 1, fail_at)

(***************************************************************************)
(* History of the last operation, read by the properties only.             *)
(***************************************************************************)
HasJob(js, user_id) == Len(get_jobs_by_name(js, JobName(user_id))) > 0

NoLast ==
    [op |-> "init", uid |-> 0,
     hadUser |-> FALSE,       \* the user had a stored row before the operation
     hadJob |-> FALSE,        \* the user had a live job before the operation
     raised |-> FALSE,        \* an exception left the handler
     reply |-> "none",        \* the reply the handler sent
     valTime |-> NoText,      \* the notify time a success reply announces
     valTz |-> "",            \* the timezone a success reply announces
     hadInstall |-> FALSE,    \* an install call for the user had returned before
     installed |-> FALSE,     \* the operation called install and the call returned
     argTime |-> NoText,      \* the notify_time_str that install call was given
     argTz |-> "",            \* the timezone_str that install call was given
     regUnchanged |-> TRUE,   \* the registry is the same as before the operation
     failed |-> 0,            \* bootstrap: the user whose install raised
     fault |-> "none",        \* dispatch: "storage" or "transport" raised
     escaped |-> FALSE,       \* dispatch: an exception left the dispatcher
     result |-> 0,            \* storage call: the returned id / boolean as 0..1
     argExam |-> 0,           \* storage call: the user_exam_id argument
     argTitle |-> NULL,       \* storage call: the title argument
     argDate |-> NoText,      \* storage call: the exam_datetime_iso argument
     list |-> <<>>,           \* storage call: the returned list
     argFirstName |-> NULL,   \* storage call: the first_name argument
     argUsername |-> NULL,    \* storage call: the username argument
     message |-> <<>>,        \* dispatch: the lines of the reminder, <<>> for None
     countdown |-> <<>>,      \* dispatch: format_exam_countdown of each listed exam
     shown |-> <<>>,          \* handler: the exam rows the handler read
     routed |-> "none",       \* startup: the backend the call went to
     attempt |-> "none",      \* dispatch: the message bot.send_message was called with
     before |-> <<>>,         \* migration: the exams table before the operation
     migrated |-> FALSE]      \* migration: _ensure_user_exam_id returned

Op(name, user_id) == [NoLast EXCEPT !.op = name, !.uid = user_id]

\* ... of an operation that may install: whether the user had a live job before
OpJ(name, user_id) ==
    [Op(name, user_id) EXCEPT !.hadJob = HasJob(jobs, user_id),
                              !.hadInstall = installed[user_id]]

\* ... with the install call the operation made: r is reschedule's result
Inst(l, r) ==
    [l EXCEPT !.installed = r.ok, !.argTime = r.user.notify_time,
              !.argTz = r.user.timezone]

\* ... and whether the user had a stored row before
OpUJ(name, user_id) ==
    [OpJ(name, user_id) EXCEPT !.hadUser = user_id \in DOMAIN users]

\* The effect of a handler that raised before changing anything
Raised(name, user_id) ==
    [users |-> users, jobs |-> jobs, last |-> [Op(name, user_id) EXCEPT !.raised = TRUE]]

\* The effect of a handler that changed storage and registry to (us, js)
Effect(us, js, l) ==
    [users |-> us, jobs |-> js, last |-> [l EXCEPT !.regUnchanged = (js = jobs)]]

(***************************************************************************)
(* app/handlers.py and app/conversations.py.  A handler is the function of *)
(* the current state to its effect [users, jobs, last]; every state change *)
(* of a handler happens before its first await (the reply).                *)
(***************************************************************************)
Resched(us, user_id) ==
    reschedule_user_reminder(us, jobs, backend, job_queue_available,
                             DEBUG_FAST_SCHEDULE, user_id, TRUE)

cmd_start(user_id) ==
    LET g == get_or_create_user(users, backend, user_id, NULL, NULL)
        r == Resched(g.users, user_id)
    IN  IF ~g.ok THEN Raised("cmd_start", user_id)
        ELSE Effect(r.users, r.jobs,
                    [Inst(OpJ("cmd_start", user_id), r) EXCEPT
                        !.raised = ~r.ok,
                        !.reply = IF r.ok THEN "welcome" ELSE "none"])

\* cmd_schedule catches what reschedule raises and replies with the error
cmd_schedule(user_id) ==
    LET g == get_or_create_user(users, backend, user_id, NULL, NULL)
        r == Resched(g.users, user_id)
    IN  IF ~g.ok THEN Raised("cmd_schedule", user_id)
        ELSE Effect(r.users, r.jobs,
                    [Inst(OpJ("cmd_schedule", user_id), r) EXCEPT
                        !.reply = IF ~r.ok THEN "error"
                                  ELSE IF HasJob(r.jobs, user_id) THEN "scheduled"
                                  ELSE "failed"])

\* cmd_add: the user row is created first.  The add_exam call sits in the body of
\* "if not exam_datetime_iso:" after its return, so it never runs, and the success
\* reply reads the unassigned exam_id: a well-formed /add raises UnboundLocalError.
AddArgs == {"usage", "valid"}

cmd_add(user_id, args) ==
    LET g == get_or_create_user(users, backend, user_id, NULL, NULL)
    IN  IF ~g.ok THEN Raised("cmd_add", user_id)
        ELSE Effect(g.users, jobs,
                    [Op("cmd_add", user_id) EXCEPT
                        !.raised = (args = "valid"),
                        !.reply = IF args = "valid" THEN "none" ELSE "usage"])

\* Variant: the conversation opens without a user row being ensured
start_add_exam_without_user(user_id) ==
    Effect(users, jobs, [Op("start_add_exam", user_id) EXCEPT !.reply = "ask_title"])

\* conversations.start_add_exam
start_add_exam(user_id) ==
    LET g == get_or_create_user(users, backend, user_id, NULL, NULL)
    IN  IF ~g.ok THEN Raised("start_add_exam", user_id)
        ELSE Effect(g.users, jobs,
                    [Op("start_add_exam", user_id) EXCEPT !.reply = "ask_title"])

cmd_list(user_id) ==
    LET g == get_or_create_user(users, backend, user_id, NULL, NULL)
        e == ensure_user_scheduled(g.users, jobs, backend, job_queue_available,
                                   DEBUG_FAST_SCHEDULE, user_id, TRUE)
    IN  IF ~g.ok THEN Raised("cmd_list", user_id)
        ELSE Effect(e.users, e.jobs,
                    [OpUJ("cmd_list", user_id) EXCEPT
                        !.raised = ~e.ok, !.installed = e.called /\ e.ok,
                        !.argTime = IF e.called THEN e.user.notify_time ELSE NoText,
                        !.argTz = IF e.called THEN e.user.timezone ELSE "",
                        !.reply = IF e.ok THEN "list" ELSE "none"])

\* Variant: the argument is stored as it was typed
cmd_settime_stores_argument(user_id, arg) ==
    LET g == get_or_create_user(users, backend, user_id, NULL, NULL)
        normalized_time == parse_time(arg)
        up == update_user_notify_time(g.users, backend, user_id, arg)
        r == Resched(up.users, user_id)
    IN  IF ~g.ok THEN Raised("cmd_settime", user_id)
        ELSE IF arg = NoText
        THEN Effect(g.users, jobs, [Op("cmd_settime", user_id) EXCEPT !.reply = "usage"])
        ELSE IF normalized_time = NoText
        THEN Effect(g.users, jobs, [Op("cmd_settime", user_id) EXCEPT !.reply = "invalid"])
        ELSE Effect(r.users, r.jobs,
                    [Inst(OpJ("cmd_settime", user_id), r) EXCEPT
                        !.raised = ~r.ok,
                        !.valTime = normalized_time,
                        !.reply = IF r.ok THEN "success" ELSE "none"])

\* cmd_settime; arg is context.args[0], NoText when there are no arguments
cmd_settime(user_id, arg) ==
    LET g == get_or_create_user(users, backend, user_id, NULL, NULL)
        normalized_time == parse_time(arg)
        up == update_user_notify_time(g.users, backend, user_id, normalized_time)
        r == Resched(up.users, user_id)
    IN  IF ~g.ok THEN Raised("cmd_settime", user_id)
        ELSE IF arg = NoText
        THEN Effect(g.users, jobs, [Op("cmd_settime", user_id) EXCEPT !.reply = "usage"])
        ELSE IF normalized_time = NoText
        THEN Effect(g.users, jobs, [Op("cmd_settime", user_id) EXCEPT !.reply = "invalid"])
        ELSE Effect(r.users, r.jobs,
                    [Inst(OpJ("cmd_settime", user_id), r) EXCEPT
                        !.raised = ~r.ok,
                        !.valTime = normalized_time,
                        !.reply = IF r.ok THEN "success" ELSE "none"])

\* cmd_timezone; arg is context.args[0], "" when there are no arguments
cmd_timezone(user_id, arg) ==
    LET g == get_or_create_user(users, backend, user_id, NULL, NULL)
        up == update_user_timezone(g.users, backend, user_id, arg)
        r == Resched(up.users, user_id)
    IN  IF ~g.ok THEN Raised("cmd_timezone", user_id)
        ELSE IF arg = ""
        THEN Effect(g.users, jobs, [Op("cmd_timezone", user_id) EXCEPT !.reply = "usage"])
        ELSE IF ~validate_timezone(arg)
        THEN Effect(g.users, jobs, [Op("cmd_timezone", user_id) EXCEPT !.reply = "invalid"])
        ELSE Effect(r.users, r.jobs,
                    [Inst(OpJ("cmd_timezone", user_id), r) EXCEPT
                        !.raised = ~r.ok,
                        !.valTz = arg,
                        !.reply = IF r.ok THEN "success" ELSE "none"])

\* handle_time_input: no get_or_create_user before the update; what reschedule
\* raises is caught and logged, and the success reply is sent all the same.
handle_time_input(user_id, text) ==
    LET normalized_time == parse_time(Strip(text))
        up == update_user_notify_time(users, backend, user_id, normalized_time)
        r == Resched(up.users, user_id)
    IN  IF normalized_time = NoText
        THEN Effect(users, jobs, Op("handle_time_input", user_id))
        ELSE IF ~up.ok THEN Raised("handle_time_input", user_id)
        ELSE Effect(r.users, r.jobs,
                    [Inst(OpUJ("handle_time_input", user_id), r) EXCEPT
                        !.valTime = normalized_time,
                        !.reply = "success"])

\* handle_timezone_input: no get_or_create_user before the update
handle_timezone_input(user_id, text) ==
    LET up == update_user_timezone(users, backend, user_id, text)
        r == Resched(up.users, user_id)
    IN  IF ~validate_timezone(text)
        THEN Effect(users, jobs, Op("handle_timezone_input", user_id))
        ELSE IF ~up.ok THEN Raised("handle_timezone_input", user_id)
        ELSE Effect(r.users, r.jobs,
                    [Inst(OpUJ("handle_timezone_input", user_id), r) EXCEPT
                        !.raised = ~r.ok,
                        !.valTz = text,
                        !.reply = IF r.ok THEN "success" ELSE "none"])

(***************************************************************************)
(* app/conversations.py, app/edit_handler.py and the exam handlers of      *)
(* app/handlers.py.  conv[user] holds the state of the two conversations   *)
(* ("END": no conversation) and the keys of context.user_data that a later *)
(* step reads: exam_title and edit_exam_id (0 for an absent key).  A       *)
(* handler is [users, exams, conv, last]: the stores after it, the user's  *)
(* conversation record after it, and what it did.  An exception leaves a   *)
(* conversation in the state it was in.                                    *)
(***************************************************************************)
NoConv == [add |-> "END", edit |-> "END", exam_title |-> NULL, edit_exam_id |-> 0]

\* context.user_data.clear()
clear(c) == [c EXCEPT !.exam_title = NULL, !.edit_exam_id = 0]

\* Message texts and callback data; the cross mark of the Cancel button is
\* written "x"
CancelText == <<"x", " ", "C", "a", "n", "c", "e", "l">>
EditPrefix == <<"e", "d", "i", "t", ":">>
EditCancel == <<"e", "d", "i", "t", "_", "c", "a", "n", "c", "e", "l">>
EditFieldPrefix == <<"e", "d", "i", "t", "f", "i", "e", "l", "d", ":">>
DelPrefix == <<"d", "e", "l", ":">>
FieldTitle == <<"t", "i", "t", "l", "e">>
FieldDatetime == <<"d", "a", "t", "e", "t", "i", "m", "e">>

\* str.startswith
startswith(s, prefix) == Len(s) >= Len(prefix) /\ SubSeq(s, 1, Len(prefix)) = prefix

\* int(text): the value, ok FALSE where int raises ValueError
int(text) ==
    IF Len(text) > 0 /\ AllDigits(text) THEN [ok |-> TRUE, value |-> IntOf(text)]
    ELSE [ok |-> FALSE, value |-> 0]

\* The stored form of a title typed by the user
TitleOf(text) ==
    CASE text = <<"M", "a", "t", "h">> -> "Math"
      [] text = <<"P", "h", "y", "s", "i", "c", "s">> -> "Physics"
      [] text = <<>> -> ""
      [] OTHER -> "other"

\* The effect of an exam handler
Chat(us, ex, c, l) == [users |-> us, exams |-> ex, conv |-> c, last |-> l]

\* ... that raised before changing anything
ChatRaised(name, user_id) ==
    Chat(users, exams, conv[user_id], [Op(name, user_id) EXCEPT !.raised = TRUE])

\* conversations.receive_title
receive_title(user_id, text) ==
    LET title == Strip(text)
        c == conv[user_id]
    IN  IF title = CancelText
        THEN Chat(users, exams, [c EXCEPT !.add = "END"],
                  [Op("receive_title", user_id) EXCEPT !.reply = "cancelled"])
        ELSE IF title = <<>>
        THEN Chat(users, exams, [c EXCEPT !.add = "ASK_TITLE"],
                  [Op("receive_title", user_id) EXCEPT !.reply = "empty"])
        ELSE Chat(users, exams,
                  [c EXCEPT !.exam_title = TitleOf(title), !.add = "ASK_DATETIME"],
                  [Op("receive_title", user_id) EXCEPT !.reply = "ask_datetime"])

\* conversations.receive_datetime.  The relational exams table has title NOT
\* NULL, so an absent exam_title raises there.
receive_datetime(user_id, text) ==
    LET date_str == Strip(text)
        c == conv[user_id]
        exam_datetime_iso == parse_exam_datetime(date_str)
        title == c.exam_title
        a == add_exam(exams, users, backend, user_id, title, exam_datetime_iso)
    IN  IF date_str = CancelText
        THEN Chat(users, exams, [clear(c) EXCEPT !.add = "END"],
                  [Op("receive_datetime", user_id) EXCEPT !.reply = "cancelled"])
        ELSE IF exam_datetime_iso = NoText
        THEN Chat(users, exams, [c EXCEPT !.add = "ASK_DATETIME"],
                  [Op("receive_datetime", user_id) EXCEPT !.reply = "invalid"])
        ELSE IF ~a.ok \/ (title = NULL /\ ~IsFirestore(backend))
        THEN ChatRaised("receive_datetime", user_id)
        ELSE Chat(users, a.exams, [clear(c) EXCEPT !.add = "END"],
                  [Op("receive_datetime", user_id) EXCEPT
                      !.reply = "added", !.result = a.result,
                      !.argTitle = title, !.argDate = exam_datetime_iso])

\* conversations.cancel_conversation
cancel_conversation(user_id) ==
    Chat(users, exams, [clear(conv[user_id]) EXCEPT !.add = "END"],
         [Op("cancel_conversation", user_id) EXCEPT !.reply = "cancelled"])

\* handlers.cmd_delete; arg is context.args[0], NoText when there are no arguments
cmd_delete(user_id, arg) ==
    LET exam_id == int(arg)
        d == delete_exam(exams, backend, exam_id.value, user_id)
    IN  IF arg = NoText
        THEN Chat(users, exams, conv[user_id],
                  [Op("cmd_delete", user_id) EXCEPT !.reply = "usage"])
        ELSE IF ~exam_id.ok
        THEN Chat(users, exams, conv[user_id],
                  [Op("cmd_delete", user_id) EXCEPT !.reply = "not_a_number"])
        ELSE Chat(users, d.exams, conv[user_id],
                  [Op("cmd_delete", user_id) EXCEPT
                      !.argExam = exam_id.value,
                      !.result = IF d.result THEN 1 ELSE 0,
                      !.reply = IF d.result THEN "deleted" ELSE "not_found"])

\* handlers.callback_delete_exam; data is query.data.  The set of its outcomes,
\* one for each list that get_user_exams can return for the refreshed message.
callback_delete_exam(user_id, data) ==
    LET exam_id == int(SubSeq(data, Len(DelPrefix) + 1, Len(data)))
        d == delete_exam(exams, backend, exam_id.value, user_id)
        g == get_or_create_user(users, backend, user_id, NULL, NULL)
    IN  IF ~startswith(data, DelPrefix) \/ ~exam_id.ok
        THEN {Chat(users, exams, conv[user_id],
                   [Op("callback_delete_exam", user_id) EXCEPT !.reply = "invalid"])}
        ELSE IF ~d.result
        THEN {Chat(users, d.exams, conv[user_id],
                   [Op("callback_delete_exam", user_id) EXCEPT
                       !.argExam = exam_id.value, !.reply = "not_found"])}
        ELSE IF ~g.ok
        THEN {Chat(users, d.exams, conv[user_id],
                   [Op("callback_delete_exam", user_id) EXCEPT
                       !.argExam = exam_id.value, !.result = 1, !.raised = TRUE])}
        ELSE {Chat(g.users, d.exams, conv[user_id],
                   [Op("callback_delete_exam", user_id) EXCEPT
                       !.argExam = exam_id.value, !.result = 1,
                       !.shown = listing, !.reply = "deleted"]) :
                  listing \in get_user_exams(d.exams, user_id)}

\* edit_handler.start_edit_exam: the set of its outcomes, one for each list that
\* get_user_exams can return
start_edit_exam(user_id) ==
    LET g == get_or_create_user(users, backend, user_id, NULL, NULL)
        c == conv[user_id]
    IN  IF ~g.ok THEN {ChatRaised("start_edit_exam", user_id)}
        ELSE {IF listing = <<>>
              THEN Chat(g.users, exams, [c EXCEPT !.edit = "END"],
                        [Op("start_edit_exam", user_id) EXCEPT !.reply = "no_exams"])
              ELSE Chat(g.users, exams, [c EXCEPT !.edit = "SELECT_EXAM"],
                        [Op("start_edit_exam", user_id) EXCEPT
                            !.shown = listing, !.reply = "select_exam"]) :
                 listing \in get_user_exams(exams, user_id)}

\* edit_handler.select_exam_callback
select_exam_callback(user_id, data) ==
    LET c == conv[user_id]
        exam_id == int(SubSeq(data, Len(EditPrefix) + 1, Len(data)))
        exam == get_exam_by_id(exams, exam_id.value, user_id)
    IN  IF data = EditCancel
        THEN Chat(users, exams, [c EXCEPT !.edit = "END"],
                  [Op("select_exam_callback", user_id) EXCEPT !.reply = "cancelled"])
        ELSE IF ~startswith(data, EditPrefix) \/ ~exam_id.ok
        THEN Chat(users, exams, [c EXCEPT !.edit = "SELECT_EXAM"],
                  [Op("select_exam_callback", user_id) EXCEPT !.reply = "invalid"])
        ELSE IF ~exam.found
        THEN Chat(users, exams, [c EXCEPT !.edit = "END"],
                  [Op("select_exam_callback", user_id) EXCEPT
                      !.argExam = exam_id.value, !.reply = "not_found"])
        ELSE Chat(users, exams,
                  [c EXCEPT !.edit_exam_id = exam_id.value, !.edit = "SELECT_FIELD"],
                  [Op("select_exam_callback", user_id) EXCEPT
                      !.argExam = exam_id.value, !.shown = <<exam.exam>>,
                      !.reply = "select_field"])

\* edit_handler.select_field_callback
select_field_callback(user_id, data) ==
    LET c == conv[user_id]
        parts == SplitColon(data, <<>>, <<>>)
        exam_id == int(parts[2])
        field == parts[3]
        chosen == [c EXCEPT !.edit_exam_id = exam_id.value]
    IN  IF data = EditCancel
        THEN Chat(users, exams, [clear(c) EXCEPT !.edit = "END"],
                  [Op("select_field_callback", user_id) EXCEPT !.reply = "cancelled"])
        ELSE IF ~startswith(data, EditFieldPrefix) \/ Len(parts) < 3 \/ ~exam_id.ok
        THEN Chat(users, exams, [c EXCEPT !.edit = "SELECT_FIELD"],
                  [Op("select_field_callback", user_id) EXCEPT !.reply = "invalid"])
        ELSE IF field = FieldTitle
        THEN Chat(users, exams, [chosen EXCEPT !.edit = "EDIT_TITLE"],
                  [Op("select_field_callback", user_id) EXCEPT
                      !.argExam = exam_id.value, !.reply = "ask_title"])
        ELSE IF field = FieldDatetime
        THEN Chat(users, exams, [chosen EXCEPT !.edit = "EDIT_DATETIME"],
                  [Op("select_field_callback", user_id) EXCEPT
                      !.argExam = exam_id.value, !.reply = "ask_datetime"])
        ELSE Chat(users, exams, [chosen EXCEPT !.edit = "SELECT_FIELD"],
                  [Op("select_field_callback", user_id) EXCEPT
                      !.argExam = exam_id.value, !.reply = "none"])

\* edit_handler.receive_new_title
receive_new_title(user_id, text) ==
    LET new_title == Strip(text)
        c == conv[user_id]
        exam_id == c.edit_exam_id
        up == update_exam(exams, backend, exam_id, user_id, TitleOf(new_title), NoText)
    IN  IF new_title = CancelText
        THEN Chat(users, exams, [clear(c) EXCEPT !.edit = "END"],
                  [Op("receive_new_title", user_id) EXCEPT !.reply = "cancelled"])
        ELSE IF new_title = <<>>
        THEN Chat(users, exams, [c EXCEPT !.edit = "EDIT_TITLE"],
                  [Op("receive_new_title", user_id) EXCEPT !.reply = "empty"])
        ELSE Chat(users, up.exams, [clear(c) EXCEPT !.edit = "END"],
                  [Op("receive_new_title", user_id) EXCEPT
                      !.argExam = exam_id, !.argTitle = TitleOf(new_title),
                      !.result = IF up.result THEN 1 ELSE 0,
                      !.reply = IF up.result THEN "updated" ELSE "failed"])

\* edit_handler.receive_new_datetime
receive_new_datetime(user_id, text) ==
    LET date_str == Strip(text)
        c == conv[user_id]
        exam_datetime_iso == parse_exam_datetime(date_str)
        exam_id == c.edit_exam_id
        up == update_exam(exams, backend, exam_id, user_id, NULL, exam_datetime_iso)
    IN  IF date_str = CancelText
        THEN Chat(users, exams, [clear(c) EXCEPT !.edit = "END"],
                  [Op("receive_new_datetime", user_id) EXCEPT !.reply = "cancelled"])
        ELSE IF exam_datetime_iso = NoText
        THEN Chat(users, exams, [c EXCEPT !.edit = "EDIT_DATETIME"],
                  [Op("receive_new_datetime", user_id) EXCEPT !.reply = "invalid"])
        ELSE Chat(users, up.exams, [clear(c) EXCEPT !.edit = "END"],
                  [Op("receive_new_datetime", user_id) EXCEPT
                      !.argExam = exam_id, !.argDate = exam_datetime_iso,
                      !.result = IF up.result THEN 1 ELSE 0,
                      !.reply = IF up.result THEN "updated" ELSE "failed"])

\* edit_handler.cancel_edit
cancel_edit(user_id) ==
    Chat(users, exams, [clear(conv[user_id]) EXCEPT !.edit = "END"],
         [Op("cancel_edit", user_id) EXCEPT !.reply = "cancelled"])

(***************************************************************************)
(* app/scheduler.py: send_daily_reminder, in its two halves around the     *)
(* await of bot.send_message.  Everything is inside try/except Exception.  *)
(***************************************************************************)
\* Up to the send: get_or_create_user and get_user_exams.  read_ok: the storage
\* calls do not raise.  suspended: the body now awaits the send.
dispatch_read(user_id, read_ok) ==
    LET g == get_or_create_user(users, backend, user_id, NULL, NULL)
        good == g.ok /\ read_ok
    IN  [users |-> IF g.ok THEN g.users ELSE users,
         jobs |-> jobs,
         suspended |-> good,
         fault |-> IF good THEN "none" ELSE "storage",
         escaped |-> FALSE]

\* Variant: nothing is sent when there is no upcoming exam
send_daily_reminder_silent_when_empty(user_id, send_ok) ==
    LET g == get_or_create_user(users, backend, user_id, NULL, NULL)
    IN  IF ~g.ok
        THEN {[users |-> users,
               last |-> [Op("send_daily_reminder", user_id) EXCEPT !.fault = "storage"]]}
        ELSE {[users |-> g.users,
               last |-> [Op("send_daily_reminder", user_id) EXCEPT
                            !.list = listing,
                            !.argTz = g.user.timezone,
                            !.countdown =
                                [i \in 1..Len(listing) |->
                                    format_exam_countdown(listing[i].exam_datetime_iso,
                                                          g.user.timezone)],
                            !.message = get_upcoming_exams_message(listing,
                                                                   g.user.timezone),
                            !.attempt =
                                IF get_upcoming_exams_message(
                                       listing, g.user.timezone) = NoMessage
                                THEN "none" ELSE "reminder",
                            !.reply = IF ~send_ok THEN "none"
                                      ELSE IF get_upcoming_exams_message(
                                                  listing, g.user.timezone) = NoMessage
                                      THEN "no_upcoming" ELSE "reminder",
                            !.fault = IF send_ok THEN "none" ELSE "transport"]] :
                 listing \in get_user_exams(exams, user_id)}

\* scheduler.send_daily_reminder as one step: the set of its outcomes, one for
\* each list that get_user_exams can return.  send_ok: bot.send_message does
\* not raise.  Everything is inside try/except Exception.
send_daily_reminder(user_id, send_ok) ==
    LET g == get_or_create_user(users, backend, user_id, NULL, NULL)
    IN  IF ~g.ok
        THEN {[users |-> users,
               last |-> [Op("send_daily_reminder", user_id) EXCEPT !.fault = "storage"]]}
        ELSE {[users |-> g.users,
               last |-> [Op("send_daily_reminder", user_id) EXCEPT
                            !.list = listing,
                            !.argTz = g.user.timezone,
                            !.countdown =
                                [i \in 1..Len(listing) |->
                                    format_exam_countdown(listing[i].exam_datetime_iso,
                                                          g.user.timezone)],
                            !.message = get_upcoming_exams_message(listing,
                                                                   g.user.timezone),
                            !.attempt =
                                IF get_upcoming_exams_message(
                                       listing, g.user.timezone) = NoMessage
                                THEN "no_upcoming" ELSE "reminder",
                            !.reply = IF ~send_ok THEN "none"
                                      ELSE IF get_upcoming_exams_message(
                                                  listing, g.user.timezone) = NoMessage
                                      THEN "no_upcoming" ELSE "reminder",
                            !.fault = IF send_ok THEN "none" ELSE "transport"]] :
                 listing \in get_user_exams(exams, user_id)}

\* Variant: a failed send removes the user's job
dispatch_send_cancel_on_failure(user_id, send_ok) ==
    [users |-> users,
     jobs |-> IF send_ok THEN jobs ELSE RemoveJobsByName(jobs, JobName(user_id)),
     suspended |-> FALSE,
     fault |-> IF send_ok THEN "none" ELSE "transport",
     escaped |-> FALSE]

\* The send and what follows it.  send_ok: bot.send_message does not raise.
dispatch_send(user_id, send_ok) ==
    [users |-> users,
     jobs |-> jobs,
     suspended |-> FALSE,
     fault |-> IF send_ok THEN "none" ELSE "transport",
     escaped |-> FALSE]

(***************************************************************************)
(* Inputs.                                                                 *)
(***************************************************************************)
Backends == {"sqlite", "postgres", "firestore"}

\* /settime arguments: none, "9:05", "24:00"
TimeArgs == {NoText, <<"9", ":", "0", "5">>, <<"2", "4", ":", "0", "0">>}

\* free text tried as a time: " 9:05", "9:5"
TimeTexts == {<<" ", "9", ":", "0", "5">>, <<"9", ":", "5">>}

\* /timezone arguments and free text tried as a timezone
TzArgs == {"", "UTC", "Mars/Phobos"}
TzTexts == {"UTC", "Mars/Phobos"}

(***************************************************************************)
(* The program.                                                            *)
(***************************************************************************)
Init ==
    /\ db = NoDb
    /\ backend \in Backends
    /\ users = <<>>
    /\ exams = <<>>
    /\ jobs = <<>>
    /\ inflight = [u \in UserIds |-> 0]
    /\ settings = Started(backend)
    /\ conv = [u \in UserIds |-> NoConv]
    /\ now = Now0
    /\ running = [u \in UserIds |-> FALSE]
    /\ phase = "boot"
    /\ restarts = 0
    /\ job_queue_available \in BOOLEAN
    /\ DEBUG_FAST_SCHEDULE \in BOOLEAN
    /\ stats = [u \in UserIds |-> [adds |-> 0, dels |-> 0]]
    /\ installed = [u \in UserIds |-> FALSE]
    /\ last = NoLast

Config == <<job_queue_available, DEBUG_FAST_SCHEDULE, backend, settings, now, db>>

\* A handler runs while the application polls
Handle(e) ==
    /\ phase = "running"
    /\ users' = e.users
    /\ jobs' = e.jobs
    /\ last' = e.last
    /\ installed' = IF e.last.installed
                    THEN [installed EXCEPT ![e.last.uid] = TRUE] ELSE installed
    /\ running' = [u \in UserIds |->
                       /\ running[u]
                       /\ HasJob(e.jobs, u)
                       /\ ~(e.last.installed /\ e.last.uid = u)]
    /\ UNCHANGED <<exams, inflight, phase, restarts, Config, conv, stats>>

\* main: schedule_all_users(application) before run_polling; an exception ends
\* the process with sys.exit(1)
Bootstrap ==
    /\ phase = "boot"
    /\ \E fail_at \in 0..Cardinality(DOMAIN users) :
          /\ fail_at = 0 \/ job_queue_available
          /\ LET r == schedule_all_users(users, jobs, backend, job_queue_available,
                                         DEBUG_FAST_SCHEDULE, fail_at)
             IN  /\ jobs' = r.jobs
                 /\ phase' = IF r.raised THEN "exited" ELSE "running"
                 /\ installed' = [u \in UserIds |->
                                      \E i \in 1..r.done : get_all_users(users, backend)[i] = u]
                 /\ last' = [NoLast EXCEPT !.op = "bootstrap", !.raised = r.raised,
                                           !.failed = r.failed,
                                           !.regUnchanged = (r.jobs = jobs)]
    /\ UNCHANGED <<users, exams, inflight, restarts, Config, conv, running, stats>>

\* The process stops and starts again: the registry and the running callbacks are
\* lost, storage is kept
Restart ==
    /\ phase \in {"running", "exited"}
    /\ restarts < MaxRestarts
    /\ restarts' = restarts + 1
    /\ jobs' = <<>>
    /\ inflight' = [u \in UserIds |-> 0]
    /\ phase' = "boot"
    /\ installed' = [u \in UserIds |-> FALSE]
    /\ running' = [u \in UserIds |-> FALSE]
    /\ last' = [NoLast EXCEPT !.op = "restart"]
    /\ UNCHANGED <<users, exams, Config, conv, stats>>

CmdStart(u) == Handle(cmd_start(u))
CmdSchedule(u) == Handle(cmd_schedule(u))
CmdAdd(u) == \E a \in AddArgs : Handle(cmd_add(u, a))
StartAddExam(u) == Handle(start_add_exam(u))
CmdList(u) == Handle(cmd_list(u))
CmdSettime(u) == \E a \in TimeArgs : Handle(cmd_settime(u, a))
CmdTimezone(u) == \E a \in TzArgs : Handle(cmd_timezone(u, a))
HandleTimeInput(u) == \E t \in TimeTexts : Handle(handle_time_input(u, t))
HandleTimezoneInput(u) == \E t \in TzTexts : Handle(handle_timezone_input(u, t))

\* The timer of a live job of the user fires: the dispatcher body starts.  The
\* job queue runs one instance of a job at a time, so a job whose body is in
\* flight does not start another; a job installed since then is another job.
Fire(u) ==
    /\ phase = "running"
    /\ HasJob(jobs, u)
    /\ ~running[u]
    /\ inflight[u] < MaxInflight
    /\ SumOver(inflight, UserIds) = inflight[u]   \* one user's bodies at a time
    /\ \E read_ok \in BOOLEAN :
          LET d == dispatch_read(u, read_ok)
          IN  /\ users' = d.users
              /\ jobs' = d.jobs
              /\ inflight' = [inflight EXCEPT ![u] = @ + (IF d.suspended THEN 1 ELSE 0)]
              /\ running' = [running EXCEPT ![u] = d.suspended]
              /\ last' = [Op("dispatch_read", u) EXCEPT
                             !.fault = d.fault, !.escaped = d.escaped,
                             !.regUnchanged = (d.jobs = jobs)]
    /\ UNCHANGED <<exams, phase, restarts, Config, conv, stats, installed>>

\* A suspended dispatcher body resumes from its send.  live: it is the body of
\* the registered job, not of a job that was replaced while it was suspended.
SendDone(u) ==
    /\ phase = "running"
    /\ inflight[u] > 0
    /\ \E send_ok, live \in BOOLEAN :
          LET d == dispatch_send(u, send_ok)
          IN  /\ live => running[u]
              /\ ~live => inflight[u] > (IF running[u] THEN 1 ELSE 0)
              /\ users' = d.users
              /\ jobs' = d.jobs
              /\ inflight' = [inflight EXCEPT ![u] = @ - 1]
              /\ running' = IF live THEN [running EXCEPT ![u] = FALSE] ELSE running
              /\ last' = [Op("dispatch_send", u) EXCEPT
                             !.fault = d.fault, !.escaped = d.escaped,
                             !.regUnchanged = (d.jobs = jobs)]
    /\ UNCHANGED <<exams, phase, restarts, Config, conv, stats, installed>>

Next ==
    \/ Bootstrap
    \/ Restart
    \/ \E u \in UserIds :
          \/ CmdStart(u)
          \/ CmdSchedule(u)
          \/ CmdAdd(u)
          \/ StartAddExam(u)
          \/ CmdList(u)
          \/ CmdSettime(u)
          \/ CmdTimezone(u)
          \/ HandleTimeInput(u)
          \/ HandleTimezoneInput(u)
          \/ Fire(u)
          \/ SendDone(u)

Spec == Init /\ [][Next]_vars


(***************************************************************************)
(* The storage port driven directly: users and exams.                      *)
(***************************************************************************)
\* Titles given to add_exam (one of them empty) and to update_exam (NULL: the
\* argument is None)
Titles == {"", "Math"}

NewTitles == {NULL, "Physics"}

\* exam_datetime_iso as parse_exam_datetime produces it (datetime.isoformat()),
\* a text of fixed width; in update_exam NoText is None
ExamDates == {<<"2", "0", "2", "6", "-", "0", "1", "-", "1", "0", "T", "0", "9", ":", "0", "0", ":", "0", "0">>,
              <<"2", "0", "2", "6", "-", "0", "1", "-", "0", "9", "T", "1", "4", ":", "3", "0", ":", "0", "0">>}

NewDates == {NoText} \cup ExamDates

\* On the relational backends both users have their row (PostgreSQL checks the
\* foreign key of an exam); Firestore has no user document and needs none.
StoreInit ==
    /\ db = NoDb
    /\ backend \in Backends
    /\ users = IF IsFirestore(backend) THEN <<>>
               ELSE [u \in UserIds |-> NewUserRow(NULL, NULL)]
    /\ exams = <<>>
    /\ jobs = <<>>
    /\ inflight = [u \in UserIds |-> 0]
    /\ settings = Started(backend)
    /\ conv = [u \in UserIds |-> NoConv]
    /\ now = Now0
    /\ running = [u \in UserIds |-> FALSE]
    /\ phase = "boot"
    /\ restarts = 0
    /\ job_queue_available = TRUE
    /\ DEBUG_FAST_SCHEDULE = FALSE
    /\ stats = [u \in UserIds |-> [adds |-> 0, dels |-> 0]]
    /\ installed = [u \in UserIds |-> FALSE]
    /\ last = NoLast

\* A call of db.add_exam(u, title, exam_datetime_iso)
AddExam(u, title, exam_datetime_iso) ==
    /\ LET r == add_exam(exams, users, backend, u, title, exam_datetime_iso)
       IN  /\ exams' = r.exams
           /\ stats' = IF r.ok THEN [stats EXCEPT ![u].adds = @ + 1] ELSE stats
           /\ last' = [Op("add_exam", u) EXCEPT
                          !.raised = ~r.ok, !.result = r.result,
                          !.argTitle = title, !.argDate = exam_datetime_iso]
    /\ UNCHANGED <<users, jobs, inflight, phase, restarts, Config, conv, running, installed>>

StoreAddExam(u) ==
    /\ Len(exams) < MaxExams
    /\ stats[u].adds < MaxAdds
    /\ AddExam(u, "Math", <<"2", "0", "2", "6", "-", "0", "1", "-", "1", "0", "T", "0", "9", ":", "0", "0", ":", "0", "0">>)

\* A call of db.delete_exam(user_exam_id, u)
DeleteExam(u, user_exam_id) ==
    /\ LET r == delete_exam(exams, backend, user_exam_id, u)
       IN  /\ exams' = r.exams
           /\ stats' = IF Len(r.exams) < Len(exams)
                       THEN [stats EXCEPT ![u].dels = @ + 1] ELSE stats
           /\ last' = [Op("delete_exam", u) EXCEPT
                          !.result = IF r.result THEN 1 ELSE 0,
                          !.argExam = user_exam_id]
    /\ UNCHANGED <<users, jobs, inflight, phase, restarts, Config, conv, running, installed>>

StoreDeleteExam(u) == \E user_exam_id \in 1..MaxAdds : DeleteExam(u, user_exam_id)

\* A call of db.update_exam(user_exam_id, u, title, exam_datetime_iso)
UpdateExam(u, user_exam_id, title, exam_datetime_iso) ==
    /\ LET r == update_exam(exams, backend, user_exam_id, u, title,
                            exam_datetime_iso)
       IN  /\ exams' = r.exams
           /\ last' = [Op("update_exam", u) EXCEPT
                          !.result = IF r.result THEN 1 ELSE 0,
                          !.argExam = user_exam_id, !.argTitle = title,
                          !.argDate = exam_datetime_iso]
    /\ UNCHANGED <<users, jobs, inflight, phase, restarts, Config, conv, running, stats, installed>>

\* The title of an exam is replaced
StoreUpdateExam(u) ==
    \E user_exam_id \in 1..MaxAdds : UpdateExam(u, user_exam_id, "Physics", NoText)

StoreNext ==
    \E u \in UserIds :
        \/ StoreAddExam(u)
        \/ StoreDeleteExam(u)
        \/ StoreUpdateExam(u)

SpecStore == StoreInit /\ [][StoreNext]_vars

(***************************************************************************)
(* The storage port driven directly: editing and listing exams.            *)
(***************************************************************************)
\* The same initial store
EditInit == StoreInit

EditAddExam(u) ==
    /\ Len(exams) < MaxEditExams
    /\ \E title \in Titles, exam_datetime_iso \in ExamDates :
          AddExam(u, title, exam_datetime_iso)

EditUpdateExam(u) ==
    \E user_exam_id \in 1..MaxEditExams, title \in NewTitles,
       exam_datetime_iso \in NewDates :
        UpdateExam(u, user_exam_id, title, exam_datetime_iso)

EditGetUserExams(u) ==
    /\ \E r \in get_user_exams(exams, u) :
          last' = [Op("get_user_exams", u) EXCEPT !.list = r]
    /\ UNCHANGED <<users, exams, jobs, inflight, phase, restarts, Config, conv, running, stats,
                   installed>>

EditNext ==
    \E u \in UserIds :
        \/ EditAddExam(u)
        \/ EditUpdateExam(u)
        \/ EditGetUserExams(u)

SpecEdit == EditInit /\ [][EditNext]_vars

(***************************************************************************)
(* The storage port driven directly: the users.                            *)
(***************************************************************************)
\* first_name and username given to get_or_create_user: None, blank, a name
FirstNames == {NULL, "", "Ann"}

Usernames == {NULL, "", "ann"}

UsersInit ==
    /\ db = NoDb
    /\ backend \in Backends
    /\ users = <<>>
    /\ exams = <<>>
    /\ jobs = <<>>
    /\ inflight = [u \in UserIds |-> 0]
    /\ settings = Started(backend)
    /\ conv = [u \in UserIds |-> NoConv]
    /\ now = Now0
    /\ running = [u \in UserIds |-> FALSE]
    /\ phase = "boot"
    /\ restarts = 0
    /\ job_queue_available = TRUE
    /\ DEBUG_FAST_SCHEDULE = FALSE
    /\ stats = [u \in UserIds |-> [adds |-> 0, dels |-> 0]]
    /\ installed = [u \in UserIds |-> FALSE]
    /\ last = NoLast

UsersUnchanged ==
    UNCHANGED <<exams, jobs, inflight, phase, restarts, Config, conv, running, stats, installed>>

\* A call of db.get_or_create_user(u, first_name, username)
UsersGetOrCreateUser(u) ==
    /\ \E first_name \in FirstNames, username \in Usernames :
          LET r == get_or_create_user(users, backend, u, first_name, username)
          IN  /\ users' = r.users
              /\ last' = [Op("get_or_create_user", u) EXCEPT
                             !.raised = ~r.ok, !.argFirstName = first_name,
                             !.argUsername = username]
    /\ UsersUnchanged

\* A call of firestore_db.get_or_create_user(u), the function of the Firestore
\* module itself
UsersFirestoreGetOrCreateUser(u) ==
    /\ IsFirestore(backend)
    /\ LET r == firestore_get_or_create_user(users, u)
       IN  /\ users' = r.users
           /\ last' = Op("firestore_get_or_create_user", u)
    /\ UsersUnchanged

\* A call of db.update_user_timezone(u, "UTC")
UsersUpdateTimezone(u) ==
    /\ LET r == update_user_timezone(users, backend, u, "UTC")
       IN  /\ users' = r.users
           /\ last' = [Op("update_user_timezone", u) EXCEPT !.raised = ~r.ok]
    /\ UsersUnchanged

\* A call of db.update_user_notify_time(u, "09:05")
UsersUpdateNotifyTime(u) ==
    /\ LET r == update_user_notify_time(users, backend, u,
                                        <<"0", "9", ":", "0", "5">>)
       IN  /\ users' = r.users
           /\ last' = [Op("update_user_notify_time", u) EXCEPT !.raised = ~r.ok]
    /\ UsersUnchanged

\* A call of db.get_all_users()
UsersGetAllUsers ==
    /\ last' = [Op("get_all_users", 0) EXCEPT !.list = get_all_users(users, backend)]
    /\ users' = users
    /\ UsersUnchanged

UsersNext ==
    \/ UsersGetAllUsers
    \/ \E u \in UserIds :
          \/ UsersGetOrCreateUser(u)
          \/ UsersFirestoreGetOrCreateUser(u)
          \/ UsersUpdateTimezone(u)
          \/ UsersUpdateNotifyTime(u)

SpecUsers == UsersInit /\ [][UsersNext]_vars

(***************************************************************************)
(* The start of the process: import of app.config and app.db, db.init_db   *)
(* in main, and storage calls after it.  backend is the backend a storage  *)
(* call is routed to.                                                      *)
(***************************************************************************)
StartupInit ==
    /\ db = [NoDb EXCEPT !.tables = FALSE, !.index = FALSE]
    /\ settings \in {ClassBody(env) : env \in Environment}
    /\ backend = Route(settings)
    /\ users = <<>>
    /\ exams = <<>>
    /\ jobs = <<>>
    /\ inflight = [u \in UserIds |-> 0]
    /\ conv = [u \in UserIds |-> NoConv]
    /\ now = Now0
    /\ running = [u \in UserIds |-> FALSE]
    /\ phase = "boot"
    /\ restarts = 0
    /\ job_queue_available = TRUE
    /\ DEBUG_FAST_SCHEDULE = FALSE
    /\ stats = [u \in UserIds |-> [adds |-> 0, dels |-> 0]]
    /\ installed = [u \in UserIds |-> FALSE]
    /\ last = NoLast

StartupFrame ==
    UNCHANGED <<exams, jobs, inflight, phase, restarts, job_queue_available,
                DEBUG_FAST_SCHEDULE, now, db, conv, running, stats, installed>>

\* import app.config runs Config.validate(); import app.db then imports
\* app.firestore_db if Config.use_firestore()
StartupImport ==
    /\ settings.stage = "import"
    /\ LET v == validate(settings)
       IN  /\ settings' = IF v.raised THEN [v.cls EXCEPT !.stage = "exited"]
                          ELSE [v.cls EXCEPT !.stage = "imported",
                                             !.firestore_db = use_firestore(v.cls)]
           /\ last' = [NoLast EXCEPT !.op = "import", !.raised = v.raised]
    /\ backend' = Route(settings')
    /\ UNCHANGED users
    /\ StartupFrame

\* main: db.init_db(); an exception ends the process with sys.exit(1)
StartupInitDb ==
    /\ settings.stage = "imported"
    /\ \E client_ok, connect_ok \in BOOLEAN :
          LET r == init_db(settings, client_ok, connect_ok)
          IN  /\ settings' = [r.cls EXCEPT
                                 !.stage = IF r.raised THEN "exited" ELSE "ready"]
              /\ last' = [NoLast EXCEPT
                             !.op = "init_db", !.raised = r.raised,
                             !.fault = IF r.raised THEN "connect" ELSE "none"]
    /\ backend' = Route(settings')
    /\ UNCHANGED users
    /\ StartupFrame

\* db.get_or_create_user(u) after init_db.  On a relational backend the call
\* needs the tables of that backend.
StartupGetOrCreateUser(u) ==
    /\ settings.stage = "ready"
    /\ LET be == Route(settings)
           g == get_or_create_user(users, be, u, NULL, NULL)
           ok == g.ok /\ (IsFirestore(be) \/ settings.schema = be)
       IN  /\ users' = IF ok THEN g.users ELSE users
           /\ last' = [Op("get_or_create_user", u) EXCEPT
                          !.raised = ~ok, !.routed = be]
    /\ UNCHANGED <<settings, backend>>
    /\ StartupFrame

\* db.get_all_users() after init_db.  firestore_db.get_firestore builds the
\* client if init_db did not.
StartupGetAllUsers ==
    /\ settings.stage = "ready"
    /\ \E client_ok \in BOOLEAN :
          LET be == Route(settings)
              f == init_firestore(settings, client_ok)
              ok == IF IsFirestore(be) THEN settings._db \/ ~f.raised
                    ELSE settings.schema = be
          IN  /\ settings' = IF IsFirestore(be) /\ ~settings._db /\ ~f.raised
                             THEN f.cls ELSE settings
              /\ last' = [Op("get_all_users", 0) EXCEPT
                             !.raised = ~ok, !.routed = be,
                             !.list = IF ok THEN get_all_users(users, be) ELSE <<>>]
    /\ backend' = Route(settings')
    /\ UNCHANGED users
    /\ StartupFrame

StartupNext ==
    \/ StartupImport
    \/ StartupInitDb
    \/ \E u \in UserIds : StartupGetOrCreateUser(u)
    \/ StartupGetAllUsers

SpecStartup == StartupInit /\ [][StartupNext]_vars

(***************************************************************************)
(* The Add Exam conversation, /add and the delete handlers, as the         *)
(* application dispatches updates to them: a ConversationHandler offers an *)
(* update to the handlers of its current state, then to its fallbacks, and *)
(* to its entry points only when no conversation is open.                  *)
(***************************************************************************)
\* Texts sent in the Add Exam conversation: " Math", " ", "x Cancel"
TitleTexts ==
    {<<" ", "M", "a", "t", "h">>,
     <<" ">>,
     <<"x", " ", "C", "a", "n", "c", "e", "l">>}

\* "2026-01-10", " 2026-01-09 14:30", "2026-02-30", "x Cancel"
DateTexts ==
    {<<"2", "0", "2", "6", "-", "0", "1", "-", "1", "0">>,
     <<" ", "2", "0", "2", "6", "-", "0", "1", "-", "0", "9", " ", "1", "4", ":", "3", "0">>,
     <<"2", "0", "2", "6", "-", "0", "2", "-", "3", "0">>,
     <<"x", " ", "C", "a", "n", "c", "e", "l">>}

\* /delete arguments: none, "a", "1", "2"
DeleteArgs ==
    {NoText,
     <<"a">>,
     <<"1">>,
     <<"2">>}

\* Callback data of delete buttons, as a client may send it
DelData ==
    {<<"d", "e", "l", ":", "1">>,
     <<"d", "e", "l", ":", "2">>,
     <<"d", "e", "l", ":", "x">>}

\* Callback data in the Edit Exam conversation
EditData ==
    {<<"e", "d", "i", "t", "_", "c", "a", "n", "c", "e", "l">>,
     <<"e", "d", "i", "t", ":", "1">>,
     <<"e", "d", "i", "t", ":", "2">>,
     <<"e", "d", "i", "t", ":", "x">>}

FieldData ==
    {<<"e", "d", "i", "t", "_", "c", "a", "n", "c", "e", "l">>,
     <<"e", "d", "i", "t", "f", "i", "e", "l", "d", ":", "1", ":", "t", "i", "t", "l", "e">>,
     <<"e", "d", "i", "t", "f", "i", "e", "l", "d", ":", "2", ":", "t", "i", "t", "l", "e">>,
     <<"e", "d", "i", "t", "f", "i", "e", "l", "d", ":", "2", ":", "d", "a", "t", "e", "t", "i", "m", "e">>,
     <<"e", "d", "i", "t", "f", "i", "e", "l", "d", ":", "x", ":", "t", "i", "t", "l", "e">>,
     <<"e", "d", "i", "t", "f", "i", "e", "l", "d", ":", "1">>}

\* Texts sent in the Edit Exam conversation
NewTitleTexts ==
    {<<"P", "h", "y", "s", "i", "c", "s">>,
     <<" ">>,
     <<"x", " ", "C", "a", "n", "c", "e", "l">>}

NewDateTexts ==
    {<<"2", "0", "2", "6", "-", "0", "1", "-", "1", "2", " ", "0", "8", ":", "0", "0">>,
     <<"t", "o", "m", "o", "r", "r", "o", "w">>,
     <<"x", " ", "C", "a", "n", "c", "e", "l">>}

\* An exam handler runs for an update of user u
ChatHandle(u, e) ==
    /\ users' = e.users
    /\ exams' = e.exams
    /\ conv' = [conv EXCEPT ![u] = e.conv]
    /\ last' = e.last
    /\ UNCHANGED <<jobs, inflight, phase, restarts, Config, running, stats, installed>>

AddInit ==
    /\ db = NoDb
    /\ backend \in Backends
    /\ users = <<>>
    /\ exams = <<>>
    /\ jobs = <<>>
    /\ inflight = [u \in UserIds |-> 0]
    /\ settings = Started(backend)
    /\ conv = [u \in UserIds |-> NoConv]
    /\ now = Now0
    /\ running = [u \in UserIds |-> FALSE]
    /\ phase = "running"
    /\ restarts = 0
    /\ job_queue_available = TRUE
    /\ DEBUG_FAST_SCHEDULE = FALSE
    /\ stats = [u \in UserIds |-> [adds |-> 0, dels |-> 0]]
    /\ installed = [u \in UserIds |-> FALSE]
    /\ last = NoLast

\* "Add Exam" or /add_start while no Add Exam conversation is open:
\* start_add_exam returns ASK_TITLE
ChatStartAddExam(u) ==
    /\ conv[u].add = "END"
    /\ LET e == start_add_exam(u)
       IN  ChatHandle(u, Chat(e.users, exams,
                              [conv[u] EXCEPT
                                  !.add = IF e.last.raised THEN @ ELSE "ASK_TITLE"],
                              e.last))

ChatReceiveTitle(u) ==
    /\ conv[u].add = "ASK_TITLE"
    /\ \E text \in TitleTexts : ChatHandle(u, receive_title(u, text))

ChatReceiveDatetime(u) ==
    /\ conv[u].add = "ASK_DATETIME"
    /\ Len(exams) < MaxChatExams
    /\ \E text \in DateTexts : ChatHandle(u, receive_datetime(u, text))

\* /cancel while the Add Exam conversation is open
ChatCancelConversation(u) ==
    /\ conv[u].add # "END"
    /\ ChatHandle(u, cancel_conversation(u))

ChatCmdAdd(u) ==
    \E a \in AddArgs :
        LET e == cmd_add(u, a) IN ChatHandle(u, Chat(e.users, exams, conv[u], e.last))

ChatCmdDelete(u) == \E arg \in DeleteArgs : ChatHandle(u, cmd_delete(u, arg))

ChatCallbackDeleteExam(u) ==
    \E data \in DelData : \E e \in callback_delete_exam(u, data) : ChatHandle(u, e)

AddNext ==
    \E u \in UserIds :
        \/ ChatStartAddExam(u)
        \/ ChatReceiveTitle(u)
        \/ ChatReceiveDatetime(u)
        \/ ChatCancelConversation(u)
        \/ ChatCmdAdd(u)
        \/ ChatCmdDelete(u)
        \/ ChatCallbackDeleteExam(u)

SpecAdd == AddInit /\ [][AddNext]_vars

(***************************************************************************)
(* The Edit Exam conversation and the delete handlers, from a store in     *)
(* which each user has added exams: user 2 owns exam 1, user 10 owns exam  *)
(* 2 (it deleted its exam 1).                                              *)
(***************************************************************************)
BothUsers == [u \in UserIds |-> NewUserRow(NULL, NULL)]

ChatExams(be) ==
    LET d1 == parse_exam_datetime(<<"2", "0", "2", "6", "-", "0", "1", "-", "1", "0">>)
        d2 == parse_exam_datetime(<<"2", "0", "2", "6", "-", "0", "1", "-", "0", "9", " ", "1", "4", ":", "3", "0">>)
        e1 == add_exam(<<>>, BothUsers, be, 2, "Math", d1).exams
        e2 == add_exam(e1, BothUsers, be, 10, "Math", d1).exams
        e3 == add_exam(e2, BothUsers, be, 10, "Math", d2).exams
    IN  delete_exam(e3, be, 1, 10).exams

EditChatInit ==
    /\ db = NoDb
    /\ backend \in Backends
    /\ users = IF IsFirestore(backend) THEN <<>> ELSE BothUsers
    /\ exams = IF IsFirestore(backend) THEN <<>> ELSE ChatExams(backend)
    /\ jobs = <<>>
    /\ inflight = [u \in UserIds |-> 0]
    /\ settings = Started(backend)
    /\ conv = [u \in UserIds |-> NoConv]
    /\ now = Now0
    /\ running = [u \in UserIds |-> FALSE]
    /\ phase = "running"
    /\ restarts = 0
    /\ job_queue_available = TRUE
    /\ DEBUG_FAST_SCHEDULE = FALSE
    /\ stats = [u \in UserIds |-> [adds |-> 0, dels |-> 0]]
    /\ installed = [u \in UserIds |-> FALSE]
    /\ last = NoLast

\* "Edit Exam" or /edit while no Edit Exam conversation is open
ChatStartEditExam(u) ==
    /\ conv[u].edit = "END"
    /\ \E e \in start_edit_exam(u) : ChatHandle(u, e)

ChatSelectExamCallback(u) ==
    /\ conv[u].edit = "SELECT_EXAM"
    /\ \E data \in EditData : ChatHandle(u, select_exam_callback(u, data))

ChatSelectFieldCallback(u) ==
    /\ conv[u].edit = "SELECT_FIELD"
    /\ \E data \in FieldData : ChatHandle(u, select_field_callback(u, data))

\* A text goes to the Add Exam conversation first, if that is open
ChatReceiveNewTitle(u) ==
    /\ conv[u].edit = "EDIT_TITLE"
    /\ conv[u].add = "END"
    /\ \E text \in NewTitleTexts : ChatHandle(u, receive_new_title(u, text))

ChatReceiveNewDatetime(u) ==
    /\ conv[u].edit = "EDIT_DATETIME"
    /\ conv[u].add = "END"
    /\ \E text \in NewDateTexts : ChatHandle(u, receive_new_datetime(u, text))

\* /cancel while the Edit Exam conversation is open and Add Exam is not
ChatCancelEdit(u) ==
    /\ conv[u].edit # "END"
    /\ conv[u].add = "END"
    /\ ChatHandle(u, cancel_edit(u))

EditChatNext ==
    \E u \in UserIds :
        \/ ChatStartEditExam(u)
        \/ ChatSelectExamCallback(u)
        \/ ChatSelectFieldCallback(u)
        \/ ChatReceiveNewTitle(u)
        \/ ChatReceiveNewDatetime(u)
        \/ ChatCancelEdit(u)
        \/ ChatCmdDelete(u)
        \/ ChatCallbackDeleteExam(u)

SpecChat == EditChatInit /\ [][EditChatNext]_vars

(***************************************************************************)
(* The reminder text: exams are stored, the clock advances and the         *)
(* dispatcher runs.  User 2 keeps the default timezone, user 10 has chosen *)
(* UTC.                                                                    *)
(***************************************************************************)
\* Exams that are added: title and exam_datetime_iso
ReminderExams ==
    {<<"Math", <<"2", "0", "2", "6", "-", "0", "1", "-", "1", "0", "T", "0", "9", ":", "0", "0", ":", "0", "0">>>>,
     <<"Physics", <<"2", "0", "2", "6", "-", "0", "1", "-", "0", "9", "T", "1", "4", ":", "3", "0", ":", "0", "0">>>>,
     <<"Math", <<"2", "0", "2", "6", "-", "0", "1", "-", "1", "2", "T", "0", "0", ":", "3", "0", ":", "0", "0">>>>}

ReminderInit ==
    /\ db = NoDb
    /\ backend \in Backends
    /\ users = IF IsFirestore(backend) THEN <<>>
               ELSE update_user_timezone(BothUsers, backend, 10, "UTC").users
    /\ exams = <<>>
    /\ jobs = <<>>
    /\ inflight = [u \in UserIds |-> 0]
    /\ settings = Started(backend)
    /\ conv = [u \in UserIds |-> NoConv]
    /\ now = Now0
    /\ running = [u \in UserIds |-> FALSE]
    /\ phase = "running"
    /\ restarts = 0
    /\ job_queue_available = TRUE
    /\ DEBUG_FAST_SCHEDULE = FALSE
    /\ stats = [u \in UserIds |-> [adds |-> 0, dels |-> 0]]
    /\ installed = [u \in UserIds |-> FALSE]
    /\ last = NoLast

ReminderFrame ==
    UNCHANGED <<jobs, inflight, phase, restarts, job_queue_available,
                DEBUG_FAST_SCHEDULE, backend, settings, db, conv, running, stats,
                installed>>

\* A call of db.add_exam for user u
ReminderAddExam(u) ==
    /\ Len(exams) < MaxReminderExams
    /\ \E x \in ReminderExams :
          LET r == add_exam(exams, users, backend, u, x[1], x[2])
          IN  /\ exams' = r.exams
              /\ last' = [Op("add_exam", u) EXCEPT
                             !.raised = ~r.ok, !.result = r.result,
                             !.argTitle = x[1], !.argDate = x[2]]
    /\ UNCHANGED <<users, now>>
    /\ ReminderFrame

\* Eleven and a half hours pass
Tick ==
    /\ (now.ordinal - Now0.ordinal) * 1440 + now.minute - Now0.minute < MaxTicks * 690
    /\ now' = [ordinal |-> now.ordinal + (now.minute + 690) \div 1440,
               minute |-> (now.minute + 690) % 1440]
    /\ last' = [NoLast EXCEPT !.op = "tick"]
    /\ UNCHANGED <<users, exams>>
    /\ ReminderFrame

\* The timer of user u fires and the dispatcher body runs to its end
Remind(u) ==
    /\ \E send_ok \in BOOLEAN : \E d \in send_daily_reminder(u, send_ok) :
          /\ users' = d.users
          /\ last' = d.last
    /\ UNCHANGED <<exams, now>>
    /\ ReminderFrame

ReminderNext ==
    \/ Tick
    \/ \E u \in UserIds :
          \/ ReminderAddExam(u)
          \/ Remind(u)

SpecReminder == ReminderInit /\ [][ReminderNext]_vars

(***************************************************************************)
(* The schema migration: a relational database that earlier versions of    *)
(* the program wrote, with exam rows whose user_exam_id is NULL, started   *)
(* again and used.                                                         *)
(***************************************************************************)
MaxLegacyRows == 3

MaxLegacyId == 2

MaxMigrateExams == 4

LegacyRows(us) ==
    {[user_id |-> u, user_exam_id |-> k, title |-> "Math",
      exam_datetime_iso |-> <<"2", "0", "2", "6", "-", "0", "1", "-", "1", "0",
                              "T", "0", "9", ":", "0", "0", ":", "0", "0">>] :
        u \in DOMAIN us, k \in 0..MaxLegacyId}

\* The exams tables found at a start: rows with and without a user_exam_id, no
\* id twice for one user
LegacyTables(us) ==
    {t \in UNION {[1..n -> LegacyRows(us)] : n \in 0..MaxLegacyRows} :
        ~HasDuplicateIds(t)}

MigrateInit ==
    /\ backend \in {"sqlite", "postgres"}
    /\ users \in {BothUsers, [u \in {2} |-> NewUserRow(NULL, NULL)]}
    /\ exams \in LegacyTables(users)
    /\ \E tables, index \in BOOLEAN :
          /\ index => tables
          /\ Len(exams) > 0 => tables
          /\ db = [NoDb EXCEPT !.tables = tables, !.index = index]
    /\ settings = Started(backend)
    /\ jobs = <<>>
    /\ inflight = [u \in UserIds |-> 0]
    /\ conv = [u \in UserIds |-> NoConv]
    /\ now = Now0
    /\ running = [u \in UserIds |-> FALSE]
    /\ phase = "boot"
    /\ restarts = 0
    /\ job_queue_available = TRUE
    /\ DEBUG_FAST_SCHEDULE = FALSE
    /\ stats = [u \in UserIds |-> [adds |-> 0, dels |-> 0]]
    /\ installed = [u \in UserIds |-> FALSE]
    /\ last = NoLast

MigrateFrame ==
    UNCHANGED <<users, jobs, inflight, phase, restarts, job_queue_available,
                DEBUG_FAST_SCHEDULE, backend, settings, now, conv, running,
                stats, installed>>

\* main: db.init_db() of a start of the process
MigrateInitDb ==
    /\ \E fault \in MigrationFaults :
          LET r == init_db_relational(db, exams, backend, fault)
          IN  /\ exams' = r.exams
              /\ db' = [db EXCEPT !.tables = r.tables, !.index = r.index,
                                  !.open = r.open]
              /\ last' = [Op("init_db", 0) EXCEPT
                             !.raised = r.raised, !.fault = fault,
                             !.before = exams, !.migrated = r.migrated]
    /\ MigrateFrame

\* A call of db.add_exam for user u.  Without the exams table the statements
\* raise and nothing is written.
MigrateAddExam(u) ==
    /\ Len(exams) < MaxMigrateExams
    /\ LET r == add_exam(exams, users, backend, u, "Math",
                         <<"2", "0", "2", "6", "-", "0", "1", "-", "1", "0",
                           "T", "0", "9", ":", "0", "0", ":", "0", "0">>)
           conn == db.open + 1
       IN  IF ~db.tables
           THEN /\ exams' = exams
                /\ db' = [db EXCEPT !.open = conn - 1]
                /\ last' = [Op("add_exam", u) EXCEPT
                               !.raised = TRUE, !.before = exams]
           ELSE /\ exams' = r.exams
                /\ db' = [db EXCEPT !.index = r.index, !.open = conn - 1]
                /\ last' = [Op("add_exam", u) EXCEPT
                               !.raised = ~r.ok, !.result = r.result,
                               !.before = exams, !.migrated = r.migrated]
    /\ MigrateFrame

MigrateNext ==
    \/ MigrateInitDb
    \/ \E u \in UserIds : MigrateAddExam(u)

SpecMigrate == MigrateInit /\ [][MigrateNext]_vars

(***************************************************************************)
(* add_exam called by two processes that share the database: each call     *)
(* reads the next id of the user and then inserts, and the statements of   *)
(* the two calls interleave.  db.calls holds, per process, the call under  *)
(* way.                                                                    *)
(***************************************************************************)
MaxRaceCalls == 3

Callers == {1, 2}

NoCall == [pc |-> "idle", user_id |-> 0, user_exam_id |-> 0]

\* add_exam up to its read: _ensure_user_exam_id and _next_user_exam_id on the
\* relational backends, the maximum over the streamed documents plus one on
\* Firestore
add_exam_read(ex, be, index, user_id) ==
    IF IsFirestore(be) THEN MaxOfSet(UserExamIds(ex, user_id)) + 1
    ELSE _next_user_exam_id(_ensure_user_exam_id(ex, be, index).exams, user_id)

\* add_exam from its write: the INSERT with the id read before, which the
\* unique index rejects when the user has a row with that id; on Firestore
\* document(str(user_exam_id)).set(exam_data), which replaces the document of
\* that id if there is one
add_exam_write(ex, be, index, user_id, user_exam_id, title, exam_datetime_iso) ==
    LET row == [user_id |-> user_id, user_exam_id |-> user_exam_id,
                title |-> title, exam_datetime_iso |-> exam_datetime_iso]
    IN  IF ~ExamExists(ex, user_exam_id, user_id)
        THEN [ok |-> TRUE, exams |-> Append(ex, row)]
        ELSE IF IsFirestore(be)
        THEN [ok |-> TRUE,
              exams |-> [i \in 1..Len(ex) |->
                            IF ExamMatches(ex[i], user_exam_id, user_id)
                            THEN row ELSE ex[i]]]
        ELSE IF index THEN [ok |-> FALSE, exams |-> ex]
        ELSE [ok |-> TRUE, exams |-> Append(ex, row)]

\* The title a process gives its exams
RaceTitle(p) == IF p = 1 THEN "Math" ELSE "Physics"

RaceInit ==
    /\ backend \in Backends
    /\ db = [NoDb EXCEPT !.calls = [p \in Callers |-> NoCall]]
    /\ users = IF IsFirestore(backend) THEN <<>> ELSE BothUsers
    /\ exams = <<>>
    /\ settings = Started(backend)
    /\ jobs = <<>>
    /\ inflight = [u \in UserIds |-> 0]
    /\ conv = [u \in UserIds |-> NoConv]
    /\ now = Now0
    /\ running = [u \in UserIds |-> FALSE]
    /\ phase = "running"
    /\ restarts = 0
    /\ job_queue_available = TRUE
    /\ DEBUG_FAST_SCHEDULE = FALSE
    /\ stats = [u \in UserIds |-> [adds |-> 0, dels |-> 0]]
    /\ installed = [u \in UserIds |-> FALSE]
    /\ last = NoLast

RaceFrame ==
    UNCHANGED <<users, jobs, inflight, phase, restarts, job_queue_available,
                DEBUG_FAST_SCHEDULE, backend, settings, now, conv, running,
                installed>>

\* Process p calls add_exam for user u; the call has read the next id
RaceRead(p, u) ==
    /\ db.calls[p].pc = "idle"
    /\ Len(exams) + Cardinality({q \in Callers : db.calls[q].pc = "read"})
          < MaxRaceCalls
    /\ db' = [db EXCEPT !.calls[p] =
                 [pc |-> "read", user_id |-> u,
                  user_exam_id |-> add_exam_read(exams, backend, db.index, u)]]
    /\ last' = [Op("add_exam_read", u) EXCEPT !.result = db'.calls[p].user_exam_id]
    /\ UNCHANGED <<exams, stats>>
    /\ RaceFrame

\* The call of process p writes and returns
RaceWrite(p) ==
    /\ db.calls[p].pc = "read"
    /\ LET c == db.calls[p]
           w == add_exam_write(exams, backend, db.index, c.user_id,
                               c.user_exam_id, RaceTitle(p),
                               <<"2", "0", "2", "6", "-", "0", "1", "-", "1", "0",
                                 "T", "0", "9", ":", "0", "0", ":", "0", "0">>)
       IN  /\ exams' = w.exams
           /\ stats' = IF w.ok THEN [stats EXCEPT ![c.user_id].adds = @ + 1]
                       ELSE stats
           /\ last' = [Op("add_exam", c.user_id) EXCEPT
                          !.raised = ~w.ok,
                          !.result = IF w.ok THEN c.user_exam_id ELSE 0,
                          !.argTitle = RaceTitle(p), !.before = exams]
    /\ db' = [db EXCEPT !.calls[p] = NoCall]
    /\ RaceFrame

RaceNext ==
    \E p \in Callers :
        \/ \E u \in UserIds : RaceRead(p, u)
        \/ RaceWrite(p)

SpecRace == RaceInit /\ [][RaceNext]_vars

(***************************************************************************)
(* schedule_user_reminder called with any notify_time_str and timezone_str, *)
(* in normal and in debug fast-schedule mode.                              *)
(***************************************************************************)
\* notify_time_str: "09:00", "21:30", "9h"
InstallTimes ==
    {<<"0", "9", ":", "0", "0">>, <<"2", "1", ":", "3", "0">>, <<"9", "h">>}

InstallZones == {"Europe/Rome", "UTC", "Mars/Phobos"}

InstallInit ==
    /\ db = NoDb
    /\ backend = "sqlite"
    /\ DEBUG_FAST_SCHEDULE \in BOOLEAN
    /\ job_queue_available = TRUE
    /\ users = <<>>
    /\ exams = <<>>
    /\ jobs = <<>>
    /\ inflight = [u \in UserIds |-> 0]
    /\ settings = Started(backend)
    /\ conv = [u \in UserIds |-> NoConv]
    /\ now = Now0
    /\ running = [u \in UserIds |-> FALSE]
    /\ phase = "running"
    /\ restarts = 0
    /\ stats = [u \in UserIds |-> [adds |-> 0, dels |-> 0]]
    /\ installed = [u \in UserIds |-> FALSE]
    /\ last = NoLast

\* A call of schedule_user_reminder(application, u, notify_time_str,
\* timezone_str); reg_ok: run_daily / run_repeating does not raise
Install(u) ==
    /\ \E notify_time_str \in InstallTimes, timezone_str \in InstallZones,
          reg_ok \in BOOLEAN :
          LET r == schedule_user_reminder(jobs, job_queue_available,
                                          DEBUG_FAST_SCHEDULE, u,
                                          notify_time_str, timezone_str, reg_ok)
          IN  /\ jobs' = r.jobs
              /\ last' = [OpJ("schedule_user_reminder", u) EXCEPT
                             !.raised = r.raised, !.installed = r.registered,
                             !.argTime = notify_time_str, !.argTz = timezone_str,
                             !.fault = IF reg_ok THEN "none" ELSE "register",
                             !.regUnchanged = (r.jobs = jobs)]
    /\ UNCHANGED <<users, exams, inflight, phase, restarts, Config, conv,
                   running, stats, installed>>

InstallNext == \E u \in UserIds : Install(u)

SpecInstall == InstallInit /\ [][InstallNext]_vars

(***************************************************************************)
(* Properties.                                                             *)
(***************************************************************************)
JobsOf(u) == get_jobs_by_name(jobs, JobName(u))

ExactlyOne(u) == Len(JobsOf(u)) = 1

\* The trigger that fires daily at the wall-clock time "HH:MM" in zone tz; in
\* debug mode the fixed 60 s interval with first fire after 5 s.
ExpectedTrigger(hhmm, tz) ==
    IF DEBUG_FAST_SCHEDULE
    THEN [kind |-> "interval", hour |-> 0, minute |-> 0, zone |-> "",
          interval |-> 60, first |-> 5]
    ELSE [kind |-> "daily",
          hour |-> 10 * DigitVal(hhmm[1]) + DigitVal(hhmm[2]),
          minute |-> 10 * DigitVal(hhmm[4]) + DigitVal(hhmm[5]),
          zone |-> IF tz = "europe/rome" THEN "Europe/Rome" ELSE tz,
          interval |-> 0, first |-> 0]

\* The user has exactly one live job, it carries the user as payload and it is the
\* trigger for (hhmm, tz)
InstalledWith(u, hhmm, tz) ==
    /\ ExactlyOne(u)
    /\ JobsOf(u)[1].data = u
    /\ JobsOf(u)[1].trigger = ExpectedTrigger(hhmm, tz)

\* Every live job is the job of its payload's user
NoStrayJobs == \A i \in 1..Len(jobs) : jobs[i].name = JobName(jobs[i].data)

PreferenceOps ==
    {"cmd_settime", "cmd_timezone", "handle_time_input", "handle_timezone_input"}

\* C1: in every reachable state the registry holds at most one live job named
\* daily:<user_id> for each user, and no job under another name.
C1_AtMostOneJobPerUser ==
    /\ \A u \in UserIds : Len(JobsOf(u)) <= 1
    /\ NoStrayJobs

\* C1 witness: a user who already had a job was installed again and has one job
C1_Witness ==
    /\ last.installed /\ last.hadJob /\ last.op = "cmd_timezone"
    /\ ExactlyOne(last.uid)
    /\ \E u \in UserIds : u # last.uid /\ ExactlyOne(u)

\* C2: when install returns for a user for whom an install had returned before
\* (job queue available), the user has exactly one live entry and it carries the
\* arguments of this second call.
C2_SecondInstallReplaces ==
    (last.installed /\ last.hadInstall /\ job_queue_available)
        => InstalledWith(last.uid, last.argTime, last.argTz)

\* C2 witness: a second install with a timezone other than the default one
C2_Witness ==
    /\ last.installed /\ last.hadInstall /\ job_queue_available
    /\ ~DEBUG_FAST_SCHEDULE
    /\ last.argTz = "UTC" /\ last.argTime = <<"0", "9", ":", "0", "5">>
    /\ InstalledWith(last.uid, last.argTime, last.argTz)

C5_BootstrapInstallsAll ==
    (last.op = "bootstrap" /\ ~last.raised /\ job_queue_available)
        => /\ \A u \in DOMAIN users :
                 InstalledWith(u, users[u].notify_time, users[u].timezone)
           /\ \A u \in UserIds \ DOMAIN users : Len(JobsOf(u)) = 0
           /\ Len(jobs) = Cardinality(DOMAIN users)

\* C5 witness: bootstrap over two stored users, one of them at 09:05 UTC
C5_Witness ==
    /\ last.op = "bootstrap" /\ ~last.raised /\ job_queue_available
    /\ ~DEBUG_FAST_SCHEDULE
    /\ DOMAIN users = UserIds
    /\ \E u \in UserIds : InstalledWith(u, <<"0", "9", ":", "0", "5">>, "UTC")
    /\ \E u \in UserIds : InstalledWith(u, DEFAULT_NOTIFY_TIME, DEFAULT_TIMEZONE)

\* C6: whenever a preference handler replies success (job queue available), the
\* user's stored row holds the announced value and the user's single live entry
\* is the one installed from the stored notify_time and timezone.
C6_SuccessReplyMeansInstalled ==
    (last.op \in PreferenceOps /\ last.reply = "success" /\ job_queue_available)
        => /\ last.uid \in DOMAIN users
           /\ last.valTime # NoText => users[last.uid].notify_time = last.valTime
           /\ last.valTz # "" => users[last.uid].timezone = last.valTz
           /\ InstalledWith(last.uid, users[last.uid].notify_time,
                            users[last.uid].timezone)

\* C7: a dispatch whose storage read or transport send raised leaves the registry
\* as it was, and no exception leaves the dispatcher.
C7_FailedDispatchKeepsRegistry ==
    (last.op \in {"dispatch_read", "dispatch_send"} /\ last.fault # "none")
        => /\ last.regUnchanged
           /\ ~last.escaped

\* C7 witness: a send raised for a user and both users still have their entry
C7_Witness ==
    /\ last.op = "dispatch_send" /\ last.fault = "transport"
    /\ \A u \in UserIds : ExactlyOne(u)

\* C8: after a bootstrap in which the install of one user raised, every other
\* stored user has exactly one live entry.
C8_BootstrapFailureIsLocal ==
    (last.op = "bootstrap" /\ last.failed # 0)
        => \A u \in DOMAIN users \ {last.failed} : ExactlyOne(u)

\* C9: after bootstrap, while the application runs (job queue available), every
\* stored user has exactly one live entry.
C9_EveryStoredUserScheduled ==
    (phase = "running" /\ job_queue_available)
        => \A u \in DOMAIN users : ExactlyOne(u)

\* C10: with no deletion for the user so far, the k-th successful add_exam of the
\* user returns user_exam_id = k, whatever was added or deleted for other users.
C10_KthAddReturnsK ==
    (last.op = "add_exam" /\ ~last.raised /\ stats[last.uid].dels = 0)
        => last.result = stats[last.uid].adds

\* C10 witness: the second add of a user returns 2 after the other user added and
\* deleted exams
C10_Witness ==
    /\ last.op = "add_exam" /\ ~last.raised /\ stats[last.uid].dels = 0
    /\ last.result = 2 /\ stats[last.uid].adds = 2
    /\ \E u \in UserIds \ {last.uid} : stats[u].adds = 2 /\ stats[u].dels = 1

\* The point in time an ISO text names, in minutes, read field by field
DateValue(iso) ==
    LET year == IntOf(SubSeq(iso, 1, 4))
        month == IntOf(SubSeq(iso, 6, 7))
        day == IntOf(SubSeq(iso, 9, 10))
        hour == IntOf(SubSeq(iso, 12, 13))
        minute == IntOf(SubSeq(iso, 15, 16))
    IN  (((year * 12 + month) * 31 + day) * 24 + hour) * 60 + minute

\* How often the row r occurs in the list l
Occurrences(l, r) == Cardinality({i \in 1..Len(l) : l[i] = r})

\* C11: in every state reached by add_exam, delete_exam and update_exam calls no
\* two exams of one user have the same user_exam_id, and every user_exam_id is
\* a positive integer.
C11_UserExamIdsUniquePositive ==
    /\ \A i, j \in 1..Len(exams) :
          (i # j /\ exams[i].user_id = exams[j].user_id)
              => exams[i].user_exam_id # exams[j].user_exam_id
    /\ \A i \in 1..Len(exams) : exams[i].user_exam_id >= 1

\* C11 witness: after a deletion below the maximum and an update, a user holds
\* the ids 1 and 3
C11_Witness ==
    /\ last.op = "update_exam" /\ last.result = 1
    /\ UserExamIds(exams, last.uid) = {1, 3}
    /\ \E u \in UserIds \ {last.uid} : UserExamIds(exams, u) = {1}

\* C12: add_exam returns the highest user_exam_id among the user's stored exams
\* plus one, 1 when the user has none: the number of a deleted highest exam is
\* given again, a number below a remaining higher one is not.
C12_AddReturnsMaxPlusOne ==
    (last.op = "add_exam" /\ ~last.raised)
        => LET n == Len(exams)
               before == UserExamIds(SubSeq(exams, 1, n - 1), last.uid)
           IN  /\ n >= 1
               /\ exams[n].user_id = last.uid
               /\ exams[n].user_exam_id = last.result
               /\ \A k \in before : k < last.result
               /\ last.result = 1 \/ (last.result - 1) \in before

\* C12 witness: a user deleted exams, and the add returned a number that an
\* earlier exam of the user had had
C12_Witness ==
    /\ last.op = "add_exam" /\ ~last.raised
    /\ stats[last.uid].dels >= 1
    /\ last.result = 2 /\ stats[last.uid].adds = 3
    /\ UserExamIds(exams, last.uid) = {1, 2}

\* C13: on every backend delete_exam(user_exam_id, user_id) returns true exactly
\* when an exam with that id of that user existed; the exam is then gone, and
\* with a wrong user or id the call returns false and the exams are unchanged.
C13_DeleteReturnsWhetherRemoved ==
    [][last'.op = "delete_exam"
         => LET existed == ExamExists(exams, last'.argExam, last'.uid)
            IN  /\ (last'.result = 1) <=> existed
                /\ ~ExamExists(exams', last'.argExam, last'.uid)
                /\ ~existed => exams' = exams
                /\ \A u \in UserIds \ {last'.uid} :
                      UserRows(exams', u) = UserRows(exams, u)]_vars

\* C14: update_exam with only the title supplied changes the title of the
\* matched exam and nothing else; with only the date supplied it changes the
\* date and nothing else; no other exam is modified.
C14_PartialUpdateFrame ==
    [][(/\ last'.op = "update_exam"
        /\ (last'.argTitle = NULL) # (last'.argDate = NoText))
         => /\ Len(exams') = Len(exams)
            /\ \A i \in 1..Len(exams) :
                  IF ExamMatches(exams[i], last'.argExam, last'.uid)
                  THEN /\ exams'[i].user_id = exams[i].user_id
                       /\ exams'[i].user_exam_id = exams[i].user_exam_id
                       /\ exams'[i].title =
                            IF last'.argTitle = NULL THEN exams[i].title
                            ELSE last'.argTitle
                       /\ exams'[i].exam_datetime_iso =
                            IF last'.argDate = NoText THEN exams[i].exam_datetime_iso
                            ELSE last'.argDate
                  ELSE exams'[i] = exams[i]]_vars

\* C14 witness: a title-only update gave one exam its new title while its date is
\* the later one, and another exam of the user kept title and date
C14_Witness ==
    /\ last.op = "update_exam" /\ last.result = 1
    /\ last.argTitle = "Physics" /\ last.argDate = NoText
    /\ \E i, j \in 1..Len(exams) :
          /\ ExamMatches(exams[i], last.argExam, last.uid)
          /\ exams[i].title = "Physics"
          /\ exams[j].user_id = last.uid /\ exams[j].title = "Math"
          /\ exams[i].exam_datetime_iso # exams[j].exam_datetime_iso

\* C15: update_exam returns true exactly when an exam with that id of that user
\* exists, for every combination of supplied and omitted fields, both omitted
\* included; when it returns false no stored exam has changed.
C15_UpdateReturnsWhetherMatched ==
    [][last'.op = "update_exam"
         => /\ (last'.result = 1) <=> ExamExists(exams, last'.argExam, last'.uid)
            /\ last'.result = 0 => exams' = exams]_vars

\* C16: get_user_exams(user_id) returns exactly the exams of the user, earliest
\* date and time first, whatever the order of insertion and of the ids.
C16_ListIsOwnExamsByDate ==
    last.op = "get_user_exams"
        => /\ Len(last.list) = Len(UserRows(exams, last.uid))
           /\ \A i \in 1..Len(exams) :
                 Occurrences(last.list, exams[i]) =
                     IF exams[i].user_id = last.uid
                     THEN Occurrences(exams, exams[i]) ELSE 0
           /\ \A i \in 1..(Len(last.list) - 1) :
                 DateValue(last.list[i].exam_datetime_iso)
                     <= DateValue(last.list[i + 1].exam_datetime_iso)

\* C16 witness: the list of a user has the exam with id 2 before the exam with id
\* 1, which is later
C16_Witness ==
    /\ last.op = "get_user_exams" /\ Len(last.list) = 2
    /\ last.list[1].user_exam_id = 2 /\ last.list[2].user_exam_id = 1
    /\ DateValue(last.list[1].exam_datetime_iso)
           < DateValue(last.list[2].exam_datetime_iso)

\* C20: add_exam with an empty title fails and inserts no exam.
C20_EmptyTitleRejected ==
    /\ (last.op = "add_exam" /\ last.argTitle = "") => last.raised
    /\ \A i \in 1..Len(exams) : exams[i].title # ""

\* C17: get_all_users returns every stored user exactly once, in ascending order
\* of user_id, on every backend.
C17_AllUsersOnceAscending ==
    last.op = "get_all_users"
        => /\ Len(last.list) = Cardinality(DOMAIN users)
           /\ \A u \in DOMAIN users : \E i \in 1..Len(last.list) : last.list[i] = u
           /\ \A i \in 1..(Len(last.list) - 1) : last.list[i] < last.list[i + 1]

\* C18: get_or_create_user inserts, for an absent user, one record with timezone
\* Europe/Rome and notify_time 09:00; for an existing user it changes neither
\* the stored timezone nor the stored notify_time; no other user's record
\* changes and a repeated call adds no record.
C18_GetOrCreateIdempotent ==
    [][last'.op = "get_or_create_user"
         => LET u == last'.uid
            IN  /\ ~last'.raised
                /\ DOMAIN users' = DOMAIN users \cup {u}
                /\ users'[u].timezone =
                     IF u \in DOMAIN users THEN users[u].timezone ELSE "Europe/Rome"
                /\ users'[u].notify_time =
                     IF u \in DOMAIN users THEN users[u].notify_time
                     ELSE <<"0", "9", ":", "0", "0">>
                /\ \A v \in DOMAIN users \ {u} : users'[v] = users[v]]_vars

\* C19: get_or_create_user on an existing user keeps the stored first_name when
\* the first_name argument is absent or blank, and the stored username when
\* the username argument is absent or blank, whatever the other argument is.
C19_BlankNeverOverwrites ==
    [][(last'.op = "get_or_create_user" /\ last'.uid \in DOMAIN users)
         => LET u == last'.uid
            IN  /\ last'.argFirstName \in {NULL, ""}
                       => users'[u].first_name = users[u].first_name
                /\ last'.argUsername \in {NULL, ""}
                       => users'[u].username = users[u].username]_vars

\* C21: every stored exam belongs to a stored user: the handlers that insert an
\* exam (the Add Exam conversation; /add) ensure the user row first.
C21_ExamOwnerIsStored ==
    \A i \in 1..Len(exams) : exams[i].user_id \in DOMAIN users

\* The Add Exam conversation has just stored an exam
C21_Witness ==
    /\ last.op = "receive_datetime"
    /\ last.reply = "added"
    /\ ExamExists(exams, last.result, last.uid)

\* The environment offers credentials that resolve to a key file
CredentialsResolvable(env) ==
    \/ env.GOOGLE_APPLICATION_CREDENTIALS # "" /\ path_exists(env.GOOGLE_APPLICATION_CREDENTIALS)
    \/ json_loads(env.FIREBASE_CREDENTIALS)

CredentialsAbsent(env) ==
    env.GOOGLE_APPLICATION_CREDENTIALS = "" /\ env.FIREBASE_CREDENTIALS = ""

\* The backend calls are routed to is one init_db made ready
RoutedIsInitialised ==
    IF Route(settings) = "firestore" THEN settings._firestore_initialized
    ELSE settings.schema = Route(settings)

\* C22: with USE_FIRESTORE on and no credentials in the environment, with or
\* without a project id, once init_db has returned use_firestore() is false, the
\* relational tables exist and a get_or_create_user call does not raise.
C22_NoCredentialsFallsBack ==
    (settings.stage = "ready" /\ settings.env.USE_FIRESTORE
     /\ CredentialsAbsent(settings.env))
        => /\ ~use_firestore(settings)
           /\ settings.schema # "none"
           /\ last.op = "get_or_create_user" => ~last.raised

\* C23: if init_firestore raised inside init_db, that exception did not leave
\* init_db (init_db raises only if the relational database cannot be reached),
\* and once init_db has returned the relational tables exist and storage calls
\* are routed to a relational backend.
C23_InitFailureFallsBack ==
    settings.init_threw
        => /\ settings.stage = "exited" => last.fault = "connect"
           /\ settings.stage = "ready"
                 => /\ settings.schema # "none"
                    /\ Route(settings) # "firestore"
                    /\ last.routed # "firestore"

\* C24: after startup the document store is the routed backend only if
\* USE_FIRESTORE was on and a project id and resolvable credentials were
\* configured; with USE_FIRESTORE off the routed backend is relational.
C24_FirestoreOnlyWhenEnabled ==
    (settings.stage = "ready" /\ Route(settings) = "firestore")
        => /\ settings.env.USE_FIRESTORE
           /\ settings.env.FIREBASE_PROJECT_ID # ""
           /\ CredentialsResolvable(settings.env)

\* C25: once init_db has returned, every storage call is routed to the same
\* backend, and that backend is the one whose client or tables init_db made
\* ready.
C25_BackendDecidedOnce ==
    [][settings'.stage = "ready"
          => /\ RoutedIsInitialised'
             /\ settings.stage = "ready" => Route(settings') = Route(settings)]_vars

\* The date of an ISO text and today's date in a zone, as day numbers
DateOf(iso) ==
    toordinal(IntOf(SubSeq(iso, 1, 4)), IntOf(SubSeq(iso, 6, 7)),
              IntOf(SubSeq(iso, 9, 10)))

TodayIn(tz) == now.ordinal + (now.minute + utcoffset(tz)) \div 1440

\* The phrase for a difference of d days
PhraseFor(d) ==
    IF d < 0 THEN MsgPassed
    ELSE IF d = 0 THEN MsgToday
    ELSE IF d = 1 THEN MsgTomorrow
    ELSE Str(d) \o MsgDaysLeft

\* The minute of the day of an ISO text
MinuteOf(iso) == IntOf(SubSeq(iso, 12, 13)) * 60 + IntOf(SubSeq(iso, 15, 16))

\* C26: the countdown of every exam a dispatch lists is the phrase for the
\* difference between the exam's date and today's date in the user's timezone,
\* whatever the time of day of the exam and of the clock: "passed" below 0,
\* "today" for 0, "tomorrow" for 1, "<n> days left" above.
C26_CountdownByDateOnly ==
    last.op = "send_daily_reminder"
        => \A i \in 1..Len(last.countdown) :
              LET d == DateOf(last.list[i].exam_datetime_iso) - TodayIn(last.argTz)
              IN  last.countdown[i] = [msg |-> PhraseFor(d), days |-> d]

\* A dispatch listed an exam dated today whose time of day has passed, and one
\* more than a day ahead
C26_Witness ==
    /\ last.op = "send_daily_reminder"
    /\ \E i \in 1..Len(last.countdown) :
          /\ last.countdown[i].msg = MsgToday
          /\ MinuteOf(last.list[i].exam_datetime_iso)
                < (now.minute + utcoffset(last.argTz)) % 1440
    /\ \E i \in 1..Len(last.countdown) : last.countdown[i].days > 1

\* C27: the reminder of a dispatch has one line for each exam of the list that
\* get_user_exams returned whose date is today or later, in the order of that
\* list, with the exam's title and its phrase; no line says "passed".
C27_ReminderListsUpcoming ==
    (last.op = "send_daily_reminder" /\ last.fault # "storage")
        => LET keep == SelectSeq(last.list,
                                 LAMBDA r : DateOf(r.exam_datetime_iso)
                                               - TodayIn(last.argTz) >= 0)
           IN  /\ last.list \in get_user_exams(exams, last.uid)
               /\ Len(last.message) = Len(keep)
               /\ \A i \in 1..Len(keep) :
                     last.message[i] =
                         [title |-> keep[i].title,
                          countdown_msg |->
                              PhraseFor(DateOf(keep[i].exam_datetime_iso)
                                           - TodayIn(last.argTz))]
               /\ \A i \in 1..Len(last.message) :
                     last.message[i].countdown_msg # MsgPassed

\* A reminder was built from a list that also held an exam of a past date
C27_Witness ==
    /\ last.op = "send_daily_reminder"
    /\ last.message # NoMessage
    /\ Len(last.message) < Len(last.list)

\* C29: a step taken for one user (a command, a callback or a conversation step,
\* whatever id it carries) leaves the exams of every other user as they were,
\* and the exams it shows are the acting user's own.
C29_OtherUsersExamsUntouched ==
    [][/\ \A b \in UserIds \ {last'.uid} : UserRows(exams', b) = UserRows(exams, b)
       /\ \A i \in 1..Len(last'.shown) : last'.shown[i].user_id = last'.uid]_vars

\* A user asked to delete an id that only another user owns; that exam is still
\* stored
C29_Witness ==
    /\ last.op \in {"cmd_delete", "callback_delete_exam"}
    /\ last.argExam > 0
    /\ ~ExamExists(exams, last.argExam, last.uid)
    /\ \E b \in UserIds \ {last.uid} : ExamExists(exams, last.argExam, b)

\* C30: at most one dispatcher body of a user is in flight at any time,
\* whatever the order of timer fires, installs and resumed sends.
C30_OneBodyPerUser == \A u \in UserIds : inflight[u] <= 1

\* C28: every storage operation gives, on the backend in use, the result and
\* the stored exams that the relational backend gives for the same call from
\* the same stored exams, so that the backends agree on every sequence of
\* operations.
C28_BackendsAgree ==
    [][/\ last'.op = "add_exam"
            => LET r == add_exam(exams, users, "sqlite", last'.uid,
                                 last'.argTitle, last'.argDate)
               IN  /\ exams' = r.exams
                   /\ last'.raised = ~r.ok
                   /\ last'.result = r.result
       /\ last'.op = "delete_exam"
            => LET r == delete_exam(exams, "sqlite", last'.argExam, last'.uid)
               IN  /\ exams' = r.exams
                   /\ (last'.result = 1) = r.result
       /\ last'.op = "update_exam"
            => LET r == update_exam(exams, "sqlite", last'.argExam, last'.uid,
                                    last'.argTitle, last'.argDate)
               IN  /\ exams' = r.exams
                   /\ (last'.result = 1) = r.result]_vars

\* No row has a NULL user_exam_id
NoNullIds(ex) == \A i \in 1..Len(ex) : ex[i].user_exam_id # 0

\* The rows of the table have the ids 1, 2, ... per user in insertion order
NumberedInOrder(ex) ==
    \A i \in 1..Len(ex) :
        ex[i].user_exam_id =
            Cardinality({j \in 1..i : ex[j].user_id = ex[i].user_id})

\* C35: after the migration of a start of the process, whatever the table held
\* before, no exam row has a NULL user_exam_id and no two rows of one user have
\* the same user_exam_id; a table of rows that were all NULL is numbered 1, 2,
\* ... per user in insertion order.
C35_BackfillCompletes ==
    (last.op = "init_db" /\ last.fault = "none")
        => /\ NoNullIds(exams)
           /\ ~HasDuplicateIds(exams)
           /\ (\A i \in 1..Len(last.before) : last.before[i].user_exam_id = 0)
                 => NumberedInOrder(exams)

\* C36: _ensure_user_exam_id run on a migrated table (no NULL id, no id twice for
\* a user), by init_db at a start or by add_exam before its insert, changes no
\* row; it returns without raising whether or not the index already exists,
\* and the index exists afterwards.
C36_MigrationIdempotent ==
    (/\ last.op \in {"init_db", "add_exam"}
     /\ NoNullIds(last.before) /\ ~HasDuplicateIds(last.before))
        => /\ Len(exams) >= Len(last.before)
           /\ \A i \in 1..Len(last.before) : exams[i] = last.before[i]
           /\ (last.fault = "none" /\ db.tables) => (last.migrated /\ db.index)

\* A start found a migrated table of at least two rows, one of them with a
\* user_exam_id above the number of rows of its user, and the index in place
C36_Witness ==
    /\ last.op = "init_db" /\ last.fault = "none" /\ last.migrated
    /\ Len(last.before) >= 2
    /\ NoNullIds(last.before) /\ ~HasDuplicateIds(last.before)
    /\ ~NumberedInOrder(last.before)
    /\ db.index

\* C37: init_db on a relational backend returns normally whichever migration
\* step failed, and the users and exams tables it created exist afterwards.
C37_MigrationFailureSwallowed ==
    last.op = "init_db" => (~last.raised /\ db.tables)

\* C38: a relational storage operation leaves no connection open, and one that
\* raises leaves the stored exams, the tables and the index as they were.
C38_RaisedPersistsNothing ==
    [][last'.op \in {"init_db", "add_exam"}
         => /\ db'.open = 0
            /\ last'.raised
                  => /\ exams' = exams
                     /\ db'.tables = db.tables
                     /\ db'.index = db.index]_vars

\* C31: whatever the interleaving of the reads and writes of add_exam calls,
\* every call returns an id, every exam of a call that returned is stored, and
\* no two stored exams of a user have the same user_exam_id.
C31_ConcurrentAddsKeepBoth ==
    /\ last.op = "add_exam" => ~last.raised
    /\ ~HasDuplicateIds(exams)
    /\ \A u \in UserIds : Len(UserRows(exams, u)) = stats[u].adds

\* C32: a call of schedule_user_reminder for a user who has a live job leaves
\* the user with a live job, whether or not the call raises.
C32_InstallNeverLeavesAbsent ==
    [][(last'.op = "schedule_user_reminder" /\ HasJob(jobs, last'.uid))
         => HasJob(jobs', last'.uid)]_vars

\* C33: in debug fast-schedule mode a call of schedule_user_reminder whose
\* trigger registration does not raise returns, for every notify_time_str and
\* timezone_str, and leaves exactly one job of the user, with the 60 s interval
\* and first fire after 5 s.
C33_DebugIgnoresTimeAndZone ==
    (/\ last.op = "schedule_user_reminder"
     /\ DEBUG_FAST_SCHEDULE /\ last.fault # "register")
        => /\ ~last.raised
           /\ ExactlyOne(last.uid)
           /\ JobsOf(last.uid)[1].trigger = FastTrigger

\* C34: a dispatch whose storage reads succeed calls bot.send_message once: with
\* the exam reminder when an exam of the list is dated today or later, with the
\* empty-state notice otherwise, for a user without exams and for a user whose
\* exams have all passed alike.
C34_OneSendPerDispatch ==
    (last.op = "send_daily_reminder" /\ last.fault # "storage")
        => /\ last.attempt \in {"reminder", "no_upcoming"}
           /\ last.attempt = "reminder"
                 <=> \E i \in 1..Len(last.list) :
                        DateOf(last.list[i].exam_datetime_iso)
                            - TodayIn(last.argTz) >= 0
           /\ last.fault = "none" => last.reply = last.attempt

\* A dispatch for a user whose exams have all passed sent the empty-state notice
C34_Witness ==
    /\ last.op = "send_daily_reminder" /\ last.fault = "none"
    /\ Len(last.list) > 0
    /\ last.attempt = "no_upcoming" /\ last.reply = "no_upcoming"

\* C39: every stored notify_time is a zero-padded HH:MM of a time of the day
\* and every stored timezone is a name validate_timezone accepts; a handler
\* that answers "invalid" has written nothing, and every install is called
\* with a time and a timezone it can parse.
C39_StoredPreferencesValid ==
    /\ \A u \in DOMAIN users :
          /\ users[u].notify_time # NoText
          /\ parse_time(users[u].notify_time) = users[u].notify_time
          /\ validate_timezone(users[u].timezone)
    /\ (last.op \in PreferenceOps /\ last.reply = "invalid") => last.regUnchanged
    /\ last.argTime # NoText
          => (TimeParses(last.argTime) /\ ResolveZone(last.argTz) # "")

\* A user's stored notify_time is 09:05, typed as 9:05, and a user's stored
\* timezone is UTC
C39_Witness ==
    /\ \E u \in DOMAIN users : users[u].notify_time = <<"0", "9", ":", "0", "5">>
    /\ \E u \in DOMAIN users : users[u].timezone = "UTC"

\* C40: when handle_time_input or handle_timezone_input replies that the time
\* or the timezone was set to a value, the user's stored row holds that value.
C40_AnnouncedValueIsStored ==
    (last.op \in {"handle_time_input", "handle_timezone_input"}
        /\ last.reply = "success")
        => /\ last.uid \in DOMAIN users
           /\ last.valTime # NoText => users[last.uid].notify_time = last.valTime
           /\ last.valTz # "" => users[last.uid].timezone = last.valTz

====
